---- MODULE Spec2Model ----
(***************************************************************************)
(* OVRO-LWA SK pipeline.                                                   *)
(*   Stage 1: beam/scripts/ovro_lwa_sk_stream.py  (stream_sk_dualpol)      *)
(*   Stage 2: scripts/ovro_lwa_rfi_clean.py       (rfi_clean)              *)
(* Stage 1 runs under Spec, stage 2 under SpecClean.                       *)
(***************************************************************************)
EXTENDS Integers, Sequences, FiniteSets, TLC

VARIABLES
    inp,      \* stage 1: the input file and the call's arguments (never written)
    pc,       \* stage 1: position in stream_sk_dualpol
    err,      \* stage 1: the exception that ended the run, "none" while running
    fin,      \* stage 1: state of the input file handle
    fout,     \* stage 1: state of the output file handle
    T,        \* stage 1: number of full blocks (line 232)
    ns_eff,   \* stage 1: T * M (line 233)
    thr,      \* stage 1: <<lower, upper>> returned by compute_sk_thresholds
    k,        \* stage 1: next value the block loop hands out
    out,      \* stage 1: what is at out_path
    log,      \* stage 1: history, one record per block the loop reduced
    cin,      \* stage 2: the SK-stream product and the call's arguments
    cpc,      \* stage 2: position in rfi_clean
    cerr,     \* stage 2: the exception that ended the run
    cst,      \* stage 2: the locals of rfi_clean
    cout      \* stage 2: what is at the output path

vars == <<inp, pc, err, fin, fout, T, ns_eff, thr, k, out, log,
          cin, cpc, cerr, cst, cout>>
vars1 == <<inp, pc, err, fin, fout, T, ns_eff, thr, k, out, log>>
vars2 == <<cin, cpc, cerr, cst, cout>>

\* ------------------------------------------------------------------ bounds
MaxNs == 5      \* time samples in the input file: 1..MaxNs
MaxM == 4       \* block size argument M: -1..MaxM


\* ------------------------------------------------------------------ numbers
\* np.nan, kept apart from every number the model computes with.
NaN == -999999

IsNaN(x) == x = NaN

\* x < y and x > y of IEEE floats: false as soon as one side is NaN.
Lt(x, y) == ~IsNaN(x) /\ ~IsNaN(y) /\ x < y
Gt(x, y) == ~IsNaN(x) /\ ~IsNaN(y) /\ x > y

RECURSIVE SumSeq(_)
SumSeq(s) == IF s = <<>> THEN 0 ELSE Head(s) + SumSeq(Tail(s))

\* Python's floor division a // b for b # 0.
FloorDiv(a, b) == IF b > 0 THEN a \div b ELSE (0 - a) \div (0 - b)

Min(a, b) == IF a <= b THEN a ELSE b

\* Spacing of float32 values around a non-negative integer x: 1 below 2^24,
\* doubling with every further binary digit.
RECURSIVE Ulp32(_)
Ulp32(x) == IF x < 16777216 THEN 1 ELSE 2 * Ulp32(x \div 2)

\* ndarray.astype("float32") of a non-negative integer-valued float64:
\* round to the nearest float32, ties to the even mantissa.
Float32(x) ==
    LET u == Ulp32(x)
        q == x \div u
        r == x % u
    IN  IF 2 * r < u THEN q * u
        ELSE IF 2 * r > u THEN (q + 1) * u
        ELSE IF q % 2 = 0 THEN q * u ELSE (q + 1) * u

\* Squares and their sums exceed 32 bits, so S2 is kept as three limbs
\* <<l0, l1, l2>> of value l0 + l1*Limb + l2*Limb^2 (exact in float64 here).
Limb == 32768

Norm3(t) ==
    LET c0 == t[1] \div Limb
        a1 == t[2] + c0
    IN  <<t[1] % Limb, a1 % Limb, t[3] + (a1 \div Limb)>>

Add3(s, t) == Norm3(<<s[1] + t[1], s[2] + t[2], s[3] + t[3]>>)

\* x * x for 0 <= x < 2^26.
Square3(x) ==
    LET hi == x \div Limb
        lo == x % Limb
    IN  Add3(Norm3(<<lo * lo, 0, 0>>), Norm3(<<0, 2 * hi * lo, hi * hi>>))

RECURSIVE SumSquares3(_)
SumSquares3(s) ==
    IF s = <<>> THEN <<0, 0, 0>> ELSE Add3(Square3(Head(s)), SumSquares3(Tail(s)))

\* ------------------------------------------------------------------ stage 1 inputs
\* Observation1/Tuning1 of the input file.  XX has shape (ns, nf); "shape" says
\* which of the other datasets disagrees with it, "time" how the time dataset is.
InputFiles ==
    { f \in [ns : 1..MaxNs, nf : {1, 2},
             shape : {"ok", "yy_ns", "yy_nf", "freq"},
             time : {"numeric", "missing", "badlen"},
             data : {"ramp", "big"}] :
        \/ f.shape = "ok" /\ f.time # "badlen"
        \/ f.shape = "ok" /\ f.time = "badlen" /\ f.data = "ramp" /\ f.nf = 2
        \/ f.shape # "ok" /\ f.time = "numeric" /\ f.data = "ramp" /\ f.nf = 2 }

\* (N, d, pfa) as the evaluator sees them: a setting per kind of answer of
\* compute_sk_thresholds.
Cfgs == {"nominal", "tight", "inverted", "invalid"}

\* Arguments of stream_sk_dualpol.  ns_max is <<>> for None, <<n>> for n;
\* out_exists: a file is at out_path before the call; same_path: out_path
\* names the input file h5_path (which then is the file at out_path).
Args ==
    { a \in [M : (0 - 1)..MaxM, start_idx : (0 - 1)..MaxNs,
             ns_max : {<<>>} \cup { <<c>> : c \in 0..MaxNs },
             cfg : Cfgs, out_exists : BOOLEAN, same_path : BOOLEAN] :
        a.same_path => a.out_exists /\ a.ns_max = <<>> }

\* Shapes of the datasets of the input file.
XXShape(f) == <<f.ns, f.nf>>
YYShape(f) == <<IF f.shape = "yy_ns" THEN f.ns + 1 ELSE f.ns,
                IF f.shape = "yy_nf" THEN f.nf + 1 ELSE f.nf>>
FreqLen(f) == IF f.shape = "freq" THEN f.nf + 1 ELSE f.nf
TimeLen(f) == IF f.time = "badlen" THEN f.ns + 1 ELSE f.ns

\* P_pol(i, f): the raw power sample of polarization pol at time i, channel c.
Power(pol, i, c, data) ==
    IF data = "ramp"
    THEN IF pol = "xx" THEN i + 1 + 4 * c ELSE 2 * (i + 1) + c
    ELSE IF pol = "xx" THEN (IF i % 2 = 0 THEN 16777216 ELSE 1 + c)
                       ELSE 16777216 + 3 * i + c

\* time[i]: the numeric time dataset, or np.arange(ns) when it is missing.
TimeAt(f, i) == IF f.time = "missing" THEN i ELSE 10 * i + 5

\* ------------------------------------------------------------------ _open_datasets
\* Outcome of _open_datasets: the exception raised ("none" if it returns) and
\* the state it leaves the input handle in.
open_datasets(f) ==
    IF XXShape(f) # YYShape(f)
    THEN [err |-> "ShapeMismatch", fin |-> "closed"]
    ELSE IF FreqLen(f) # f.nf
    THEN [err |-> "FreqMismatch", fin |-> "closed"]
    ELSE IF f.time # "missing" /\ TimeLen(f) # f.ns
    THEN [err |-> "TimeShape", fin |-> "open"]
    ELSE [err |-> "none", fin |-> "open"]

\* ------------------------------------------------------------------ validation
\* ns_sel of lines 216-223 (only read once start_idx and ns_max passed).
SelectedSamples(ns_total, a) ==
    IF a.ns_max = <<>> THEN ns_total - a.start_idx
    ELSE Min(a.ns_max[1], ns_total - a.start_idx)

\* Mutant: the block count rounded up, so that the tail forms a short block.
NumBlocksCeil(ns_sel, M) == FloorDiv(ns_sel + M - 1, M)

\* T = ns_sel // M of line 232.
NumBlocks(ns_sel, M) == FloorDiv(ns_sel, M)

\* Mutant: start_idx = ns_total slips through the range check.
validateStartOffByOne(ns_total, a) ==
    LET ns_sel == SelectedSamples(ns_total, a)
        bad(e, h) == [err |-> e, fin |-> h, T |-> 0, ns_eff |-> 0]
    IN  IF a.start_idx < 0 \/ a.start_idx > ns_total
        THEN bad("StartIdx", "closed")
        ELSE IF a.ns_max # <<>> /\ a.ns_max[1] <= 0
        THEN bad("NsMax", "closed")
        ELSE IF ns_sel <= 0
        THEN bad("NoSamples", "closed")
        ELSE IF a.M = 0
        THEN bad("ZeroDivisionError", "open")
        ELSE IF NumBlocks(ns_sel, a.M) <= 0
        THEN bad("NotEnoughSamples", "closed")
        ELSE [err |-> "none", fin |-> "open",
              T |-> NumBlocks(ns_sel, a.M),
              ns_eff |-> NumBlocks(ns_sel, a.M) * a.M]

\* Mutant: the block-count check lets T = 0 through.
validateAllowsZero(ns_total, a) ==
    LET ns_sel == SelectedSamples(ns_total, a)
        bad(e, h) == [err |-> e, fin |-> h, T |-> 0, ns_eff |-> 0]
    IN  IF a.start_idx < 0 \/ a.start_idx >= ns_total
        THEN bad("StartIdx", "closed")
        ELSE IF a.ns_max # <<>> /\ a.ns_max[1] <= 0
        THEN bad("NsMax", "closed")
        ELSE IF ns_sel <= 0
        THEN bad("NoSamples", "closed")
        ELSE IF a.M = 0
        THEN bad("ZeroDivisionError", "open")
        ELSE IF NumBlocks(ns_sel, a.M) < 0
        THEN bad("NotEnoughSamples", "closed")
        ELSE [err |-> "none", fin |-> "open",
              T |-> NumBlocks(ns_sel, a.M),
              ns_eff |-> NumBlocks(ns_sel, a.M) * a.M]

\* Lines 210-238: the checks of start_idx, ns_max, ns_sel and T, in order.
validate(ns_total, a) ==
    LET ns_sel == SelectedSamples(ns_total, a)
        bad(e, h) == [err |-> e, fin |-> h, T |-> 0, ns_eff |-> 0]
    IN  IF a.start_idx < 0 \/ a.start_idx >= ns_total
        THEN bad("StartIdx", "closed")
        ELSE IF a.ns_max # <<>> /\ a.ns_max[1] <= 0
        THEN bad("NsMax", "closed")
        ELSE IF ns_sel <= 0
        THEN bad("NoSamples", "closed")
        ELSE IF a.M = 0
        THEN bad("ZeroDivisionError", "open")
        ELSE IF NumBlocks(ns_sel, a.M) <= 0
        THEN bad("NotEnoughSamples", "closed")
        ELSE [err |-> "none", fin |-> "open",
              T |-> NumBlocks(ns_sel, a.M),
              ns_eff |-> NumBlocks(ns_sel, a.M) * a.M]

\* The classes of section 7 of the specification, by raise site.
ConfigErrors == {"StartIdx", "NsMax"}
InsufficientDataErrors == {"NotEnoughSamples", "NoSamples"}
ShapeMismatchErrors == {"ShapeMismatch", "FreqMismatch", "TimeShape"}
\* Every raise statement of stage 1 raises ValueError.
ValueErrors == ConfigErrors \cup InsufficientDataErrors \cup ShapeMismatchErrors

\* ------------------------------------------------------------------ evaluator
\* compute_sk_thresholds(M, N, d, pfa) of pygsk: <<lower, upper>>, or <<>> when
\* it raises.  Nothing in stage 1 constrains pfa, so lower <= upper is not given.
compute_sk_thresholds(M, cfg) ==
    IF cfg = "nominal" THEN <<1, 3>>
    ELSE IF cfg = "tight" THEN <<2, 2>>
    ELSE IF cfg = "inverted" THEN <<3, 1>>
    ELSE <<>>

\* core.get_sk of pygsk: a pure function of the moment sums and (M, N, d) whose
\* values cover NaN and both sides of every threshold.
SKTable == <<NaN, 0, 1, 2, 3, 4>>
get_sk(s1, s2, M, cfg) ==
    SKTable[((s1 + s2[1] + s2[2] + s2[3] + M) % Len(SKTable)) + 1]

\* Mutant: the comparisons include the thresholds themselves.
FlagInclusive(sk, lower, upper) ==
    LET f0 == 0
        f1 == IF ~IsNaN(sk) /\ sk <= lower THEN 0 - 1 ELSE f0
        f2 == IF ~IsNaN(sk) /\ sk >= upper THEN 1 ELSE f1
    IN  f2

\* Lines 373-380: zeros, then -1 where sk < lower, then +1 where sk > upper.
Flag(sk, lower, upper) ==
    LET f0 == 0
        f1 == IF Lt(sk, lower) THEN 0 - 1 ELSE f0
        f2 == IF Gt(sk, upper) THEN 1 ELSE f1
    IN  f2

\* ------------------------------------------------------------------ block loop
\* Indices ds[i0:i1] delivers from a dataset of n rows (a slice stops at the end).
SliceIdx(i0, i1, n) ==
    LET hi == Min(i1, n)
    IN  [j \in 1..(IF hi > i0 THEN hi - i0 ELSE 0) |-> i0 + j - 1]

\* Lines 335-336: the block the loop value kk selects.
BlockStart(kk, a) == a.start_idx + kk * a.M
BlockStop(kk, a) == BlockStart(kk, a) + a.M

\* Mutant: rows filled from the last one backwards.
RowOfReversed(kk) == T - 1 - kk

\* Mutant: every pass writes the first row.
RowOfFirst(kk) == 0

\* Row of every output dataset that the results of loop value kk go to.
RowOf(kk) == kk

\* Column c of block_<pol>: the samples of the slice at channel c.
Column(pol, idx, c, f) == [j \in 1..Len(idx) |-> Power(pol, idx[j], c, f.data)]

\* Mutant: the sum misses the first sample of the block.
S1BlockSkipFirst(pol, idx, f) ==
    [c \in 1..f.nf |-> SumSeq(Tail(Column(pol, idx, c - 1, f)))]

\* Lines 348-349 and 383-384: S1 per channel, and the row as it is stored.
S1Block(pol, idx, f) == [c \in 1..f.nf |-> SumSeq(Column(pol, idx, c - 1, f))]
S2Block(pol, idx, f) == [c \in 1..f.nf |-> SumSquares3(Column(pol, idx, c - 1, f))]
StoredS1(s1row) == [c \in 1..Len(s1row) |-> Float32(s1row[c])]

\* Lines 343-344: np.mean of the block's timestamps, as <<sum, count>>.
TimeMean(idx, f) == <<SumSeq([j \in 1..Len(idx) |-> TimeAt(f, idx[j])]), Len(idx)>>

\* Mutant: the thresholds are shifted from block to block.
ReduceBlockOwnThresholds(kk, f, a, th) ==
    LET idx == SliceIdx(BlockStart(kk, a), BlockStop(kk, a), f.ns)
        s1x == S1Block("xx", idx, f)
        s1y == S1Block("yy", idx, f)
        s2x == S2Block("xx", idx, f)
        s2y == S2Block("yy", idx, f)
        skx == [c \in 1..f.nf |-> get_sk(s1x[c], s2x[c], a.M, a.cfg)]
        sky == [c \in 1..f.nf |-> get_sk(s1y[c], s2y[c], a.M, a.cfg)]
    IN  [k |-> kk, row |-> RowOf(kk), idx |-> idx,
         time_blk |-> TimeMean(idx, f),
         s1_xx |-> s1x, s1_yy |-> s1y, s2_xx |-> s2x, s2_yy |-> s2y,
         sk_xx |-> skx, sk_yy |-> sky,
         flags_xx |-> [c \in 1..f.nf |-> Flag(skx[c], th[1] + kk, th[2] + kk)],
         flags_yy |-> [c \in 1..f.nf |-> Flag(sky[c], th[1] + kk, th[2] + kk)]]

\* Everything one pass of the loop body computes for loop value kk.
ReduceBlock(kk, f, a, th) ==
    LET idx == SliceIdx(BlockStart(kk, a), BlockStop(kk, a), f.ns)
        s1x == S1Block("xx", idx, f)
        s1y == S1Block("yy", idx, f)
        s2x == S2Block("xx", idx, f)
        s2y == S2Block("yy", idx, f)
        skx == [c \in 1..f.nf |-> get_sk(s1x[c], s2x[c], a.M, a.cfg)]
        sky == [c \in 1..f.nf |-> get_sk(s1y[c], s2y[c], a.M, a.cfg)]
    IN  [k |-> kk, row |-> RowOf(kk), idx |-> idx,
         time_blk |-> TimeMean(idx, f),
         s1_xx |-> s1x, s1_yy |-> s1y, s2_xx |-> s2x, s2_yy |-> s2y,
         sk_xx |-> skx, sk_yy |-> sky,
         flags_xx |-> [c \in 1..f.nf |-> Flag(skx[c], th[1], th[2])],
         flags_yy |-> [c \in 1..f.nf |-> Flag(sky[c], th[1], th[2])]]

\* ------------------------------------------------------------------ output file
Absent == [kind |-> "absent", time_blk |-> <<>>, s1_xx |-> <<>>, s1_yy |-> <<>>,
           sk_flags_xx |-> <<>>, sk_flags_yy |-> <<>>, nwrites |-> <<>>]
OldProduct == [Absent EXCEPT !.kind = "old"]

\* Lines 257-306: the new file, its (T, nf) datasets holding the fill value 0.
NewProduct(nT, nf) ==
    LET zeros == [r \in 1..nT |-> [c \in 1..nf |-> 0]]
    IN  [kind |-> "product", time_blk |-> [r \in 1..nT |-> <<0, 1>>],
         s1_xx |-> zeros, s1_yy |-> zeros,
         sk_flags_xx |-> zeros, sk_flags_yy |-> zeros,
         nwrites |-> [r \in 1..nT |-> 0]]

\* Lines 345 and 383-386: the writes of one pass into row b.row.
WriteRow(o, b) ==
    LET r == b.row + 1
    IN  [o EXCEPT !.time_blk[r] = b.time_blk,
                  !.s1_xx[r] = StoredS1(b.s1_xx),
                  !.s1_yy[r] = StoredS1(b.s1_yy),
                  !.sk_flags_xx[r] = b.flags_xx,
                  !.sk_flags_yy[r] = b.flags_yy,
                  !.nwrites[r] = @ + 1]

\* Lines 383 and 385, and lines 384 and 386: the writes of one polarization.
WriteXX(o, b) ==
    LET r == b.row + 1
    IN  [o EXCEPT !.s1_xx[r] = StoredS1(b.s1_xx), !.sk_flags_xx[r] = b.flags_xx]
WriteYY(o, b) ==
    LET r == b.row + 1
    IN  [o EXCEPT !.s1_yy[r] = StoredS1(b.s1_yy), !.sk_flags_yy[r] = b.flags_yy]

\* Line 345: the write of the block time.
WriteTime(o, b) ==
    LET r == b.row + 1
    IN  [o EXCEPT !.time_blk[r] = b.time_blk, !.nwrites[r] = @ + 1]

\* ------------------------------------------------------------------ stage 1 actions
Init1 ==
    /\ inp \in [file : InputFiles, args : Args]
    /\ pc = "open"
    /\ err = "none"
    /\ fin = "unopened"
    /\ fout = "unopened"
    /\ T = 0
    /\ ns_eff = 0
    /\ thr = <<>>
    /\ k = 0
    /\ out = IF inp.args.out_exists THEN OldProduct ELSE Absent
    /\ log = <<>>

Idle2 ==
    /\ cin = <<>>
    /\ cpc = "idle"
    /\ cerr = "none"
    /\ cst = <<>>
    /\ cout = <<>>

\* Line 206: _open_datasets.
OpenDatasets ==
    /\ pc = "open"
    /\ LET r == open_datasets(inp.file)
       IN  /\ fin' = r.fin
           /\ err' = r.err
           /\ pc' = IF r.err = "none" THEN "validate" ELSE "failed"
    /\ UNCHANGED <<inp, fout, T, ns_eff, thr, k, out, log>>

\* Lines 207-246: the argument checks and the block count.
Validate ==
    /\ pc = "validate"
    /\ LET r == validate(inp.file.ns, inp.args)
       IN  /\ fin' = r.fin
           /\ err' = r.err
           /\ T' = r.T
           /\ ns_eff' = r.ns_eff
           /\ pc' = IF r.err = "none" THEN "thresholds" ELSE "failed"
    /\ UNCHANGED <<inp, fout, thr, k, out, log>>

\* Line 249: the one call of compute_sk_thresholds.
ComputeThresholds ==
    /\ pc = "thresholds"
    /\ LET r == compute_sk_thresholds(inp.args.M, inp.args.cfg)
       IN  IF r = <<>>
           THEN /\ err' = "EvaluatorError"
                /\ pc' = "failed"
                /\ thr' = thr
           ELSE /\ thr' = r
                /\ pc' = "prepare"
                /\ err' = err
    /\ UNCHANGED <<inp, fin, fout, T, ns_eff, k, out, log>>

\* Mutant: an existing destination is removed before the argument checks.
RemoveExistingEarly ==
    /\ pc = "validate"
    /\ out.kind # "absent"
    /\ out' = Absent
    /\ UNCHANGED <<inp, pc, err, fin, fout, T, ns_eff, thr, k, log>>

\* Mutant: an existing destination is truncated in place by the open for
\* writing, without being removed first.
TruncateExisting ==
    /\ pc = "prepare"
    /\ out.kind # "absent"
    /\ out' = NewProduct(T, inp.file.nf)
    /\ fout' = "open"
    /\ k' = 0
    /\ pc' = "loop"
    /\ UNCHANGED <<inp, err, fin, T, ns_eff, thr, log>>

\* Lines 253-255: os.remove of an existing destination.
RemoveExisting ==
    /\ pc = "prepare"
    /\ out.kind # "absent"
    /\ out' = Absent
    /\ UNCHANGED <<inp, pc, err, fin, fout, T, ns_eff, thr, k, log>>

\* Lines 257-331: create the file, its datasets and attributes; start the loop.
CreateOutput ==
    /\ pc = "prepare"
    /\ out.kind = "absent"
    /\ out' = NewProduct(T, inp.file.nf)
    /\ fout' = "open"
    /\ k' = 0
    /\ pc' = "loop"
    /\ UNCHANGED <<inp, err, fin, T, ns_eff, thr, log>>

\* Lines 334-391: one pass of "for k in range(T)".
ProcessBlock ==
    /\ pc = "loop"
    /\ k < T
    /\ LET b == ReduceBlock(k, inp.file, inp.args, thr)
       IN  /\ out' = WriteRow(out, b)
           /\ log' = Append(log, b)
    /\ k' = k + 1
    /\ UNCHANGED <<inp, pc, err, fin, fout, T, ns_eff, thr>>

\* Lines 393-398: the loop is exhausted; close both files.
Finish ==
    /\ pc = "loop"
    /\ k >= T
    /\ fout' = "closed"
    /\ fin' = "closed"
    /\ pc' = "done"
    /\ UNCHANGED <<inp, err, T, ns_eff, thr, k, out, log>>

Next1 ==
    \/ OpenDatasets
    \/ Validate
    \/ ComputeThresholds
    \/ RemoveExisting
    \/ CreateOutput
    \/ ProcessBlock
    \/ Finish

Init == Init1 /\ Idle2
Next == Next1 /\ UNCHANGED vars2
Spec == Init /\ [][Next]_vars

\* ------------------------------------------------------------------ stage 1 claims
\* The input file passes every check of _open_datasets.
WellFormed == inp.file.shape = "ok" /\ inp.file.time # "badlen"

StartInRange == 0 <= inp.args.start_idx /\ inp.args.start_idx < inp.file.ns
CapValid == inp.args.ns_max = <<>> \/ inp.args.ns_max[1] > 0

\* S = min(cap, total - start), or total - start without a cap.
Selected ==
    LET rest == inp.file.ns - inp.args.start_idx
    IN  IF inp.args.ns_max = <<>> THEN rest
        ELSE IF inp.args.ns_max[1] <= rest THEN inp.args.ns_max[1] ELSE rest

\* The run got past lines 210-238.
Passed ==
    \/ pc \in {"thresholds", "prepare", "loop", "done"}
    \/ pc = "failed" /\ err = "EvaluatorError"

Ended == pc \in {"failed", "done"}

\* The destination is as it was before the call.
OutUntouched == out = (IF inp.args.out_exists THEN OldProduct ELSE Absent)

IdxSet(b) == { b.idx[i] : i \in 1..Len(b.idx) }

\* C1: once validation passed with M > 0, T = floor(S / M); every block read
\* is [start + k*M, start + k*M + M) with exactly M samples, the blocks are
\* pairwise disjoint, and every index read lies in [start, start + T*M) and
\* below the total sample count.
C1_BlockPartition ==
    (Passed /\ inp.args.M > 0) =>
        LET M == inp.args.M
            st == inp.args.start_idx
        IN  /\ T * M <= Selected
            /\ Selected < (T + 1) * M
            /\ ns_eff = T * M
            /\ \A j \in 1..Len(log) :
                 /\ log[j].k \in 0..(T - 1)
                 /\ Len(log[j].idx) = M
                 /\ \A i \in 1..Len(log[j].idx) :
                      /\ log[j].idx[i] = st + log[j].k * M + (i - 1)
                      /\ st <= log[j].idx[i]
                      /\ log[j].idx[i] < st + T * M
                      /\ log[j].idx[i] < inp.file.ns
            /\ \A j1, j2 \in 1..Len(log) :
                 j1 # j2 => IdxSet(log[j1]) \cap IdxSet(log[j2]) = {}

\* A finished run of two blocks with a dropped remainder.
C1_Witness ==
    pc = "done" /\ T >= 2 /\ Selected > T * inp.args.M /\ Len(log) = T

RECURSIVE SumRange(_, _, _, _, _)
SumRange(pol, lo, hi, c, data) ==
    IF lo >= hi THEN 0
    ELSE Power(pol, lo, c, data) + SumRange(pol, lo + 1, hi, c, data)

RECURSIVE SumSqRange(_, _, _, _, _)
SumSqRange(pol, lo, hi, c, data) ==
    IF lo >= hi THEN <<0, 0, 0>>
    ELSE Add3(Square3(Power(pol, lo, c, data)), SumSqRange(pol, lo + 1, hi, c, data))

RECURSIVE PlainSumSq(_, _, _, _, _)
PlainSumSq(pol, lo, hi, c, data) ==
    IF lo >= hi THEN 0
    ELSE Power(pol, lo, c, data) * Power(pol, lo, c, data)
         + PlainSumSq(pol, lo + 1, hi, c, data)

Value3(l) == l[1] + Limb * l[2] + Limb * Limb * l[3]

Abs(x) == IF x < 0 THEN 0 - x ELSE x

\* First part of C2: for every block reduced, every channel and both
\* polarizations, S1 is the sum of P(i, f) over i in [start + k*M,
\* start + (k+1)*M) and S2 the sum of the squares.
MomentSums ==
    \A j \in 1..Len(log) :
        LET b == log[j]
            lo == inp.args.start_idx + b.k * inp.args.M
            hi == lo + inp.args.M
            d == inp.file.data
        IN  \A c \in 1..inp.file.nf :
              /\ b.s1_xx[c] = SumRange("xx", lo, hi, c - 1, d)
              /\ b.s1_yy[c] = SumRange("yy", lo, hi, c - 1, d)
              /\ b.s2_xx[c] = SumSqRange("xx", lo, hi, c - 1, d)
              /\ b.s2_yy[c] = SumSqRange("yy", lo, hi, c - 1, d)
              /\ d = "ramp" =>
                   /\ Value3(b.s2_xx[c]) = PlainSumSq("xx", lo, hi, c - 1, d)
                   /\ Value3(b.s2_yy[c]) = PlainSumSq("yy", lo, hi, c - 1, d)

\* C2 as claimed: S1 and S2 are the sums over the block's M samples, and the
\* persisted s1_<pol>[k, f] is that S1.
C2_Original ==
    /\ MomentSums
    /\ \A j \in 1..Len(log) : \A c \in 1..inp.file.nf :
         /\ out.s1_xx[log[j].k + 1][c] = log[j].s1_xx[c]
         /\ out.s1_yy[log[j].k + 1][c] = log[j].s1_yy[c]

\* p is S1 as float32 stores it: S1 itself up to 2^24, else the multiple of
\* the float32 spacing at S1 that is nearest to S1.
StoredAs(p, s1) ==
    /\ s1 <= 16777216 => p = s1
    /\ p % Ulp32(s1) = 0
    /\ 2 * Abs(p - s1) <= Ulp32(s1)

\* C2 amended: S1 and S2 are the sums over the block's M samples, and the
\* persisted s1_<pol>[k, f] is that S1 rounded to single precision (equal to
\* S1 whenever S1 is representable in float32).
C2_Amended ==
    /\ MomentSums
    /\ \A j \in 1..Len(log) : \A c \in 1..inp.file.nf :
         /\ StoredAs(out.s1_xx[log[j].k + 1][c], log[j].s1_xx[c])
         /\ StoredAs(out.s1_yy[log[j].k + 1][c], log[j].s1_yy[c])

\* The example of the specification: M = 4 over samples 1, 2, 3, 4.
C2_Witness ==
    /\ inp.args.M = 4
    /\ Len(log) = 1
    /\ Column("xx", log[1].idx, 0, inp.file) = <<1, 2, 3, 4>>
    /\ log[1].s1_xx[1] = 10
    /\ log[1].s2_xx[1] = <<30, 0, 0>>
    /\ out.s1_xx[1][1] = 10

\* The cells of the blocks reduced so far: SK, thresholds, flag computed and
\* flag stored.
FlagCells ==
    { [sk |-> log[j].sk_xx[c], fl |-> log[j].flags_xx[c],
       st |-> out.sk_flags_xx[log[j].k + 1][c]] :
        j \in 1..Len(log), c \in 1..inp.file.nf }
    \cup
    { [sk |-> log[j].sk_yy[c], fl |-> log[j].flags_yy[c],
       st |-> out.sk_flags_yy[log[j].k + 1][c]] :
        j \in 1..Len(log), c \in 1..inp.file.nf }

Count(bs) == Cardinality({ i \in 1..Len(bs) : bs[i] })

\* C3 as claimed: for every cell exactly one of SK < lower, SK > upper,
\* neither holds, and the stored flag is -1 exactly when SK < lower, +1
\* exactly when SK > upper, 0 otherwise.
C3_Original ==
    \A x \in FlagCells :
        LET low == Lt(x.sk, thr[1])
            high == Gt(x.sk, thr[2])
        IN  /\ Count(<<low, high, ~low /\ ~high>>) = 1
            /\ x.st = (0 - 1) <=> low
            /\ x.st = 1 <=> high
            /\ x.st = 0 <=> (~low /\ ~high)

\* C3 amended: the stored flag is +1 exactly when SK > upper, -1 exactly when
\* SK < lower and not SK > upper, and 0 otherwise, so it is always in
\* {-1, 0, +1}; when lower <= upper the three cases exclude one another and
\* the flag is -1 exactly when SK < lower.
C3_Amended ==
    \A x \in FlagCells :
        LET low == Lt(x.sk, thr[1])
            high == Gt(x.sk, thr[2])
        IN  /\ x.st = x.fl
            /\ x.st \in {0 - 1, 0, 1}
            /\ x.st = 1 <=> high
            /\ x.st = (0 - 1) <=> (low /\ ~high)
            /\ x.st = 0 <=> (~low /\ ~high)
            /\ thr[1] <= thr[2] =>
                 /\ Count(<<low, high, ~low /\ ~high>>) = 1
                 /\ x.st = (0 - 1) <=> low

\* A block whose cells show all three flags, one of them from a NaN SK.
C3_Witness ==
    /\ \E x \in FlagCells : x.st = 0 - 1 /\ Lt(x.sk, thr[1])
    /\ \E x \in FlagCells : x.st = 1 /\ Gt(x.sk, thr[2])
    /\ \E x \in FlagCells : x.st = 0 /\ IsNaN(x.sk)

\* C4 as claimed: with M <= 0 (and an input file that opens) the run fails
\* with one of the errors the code raises for bad arguments, and no block is
\* reduced.
C4_Claim ==
    (WellFormed /\ inp.args.M <= 0 /\ pc \notin {"open", "validate"}) =>
        /\ pc = "failed"
        /\ err \in ValueErrors
        /\ log = <<>>

\* C5: with a start offset outside [0, total) the run fails before any block
\* is reduced, whatever the other arguments are, and once the input file is
\* open the error is the one for the start offset.
C5_StartOutOfRange ==
    ~StartInRange =>
        /\ pc \in {"open", "validate", "failed"}
        /\ log = <<>>
        /\ OutUntouched
        /\ (WellFormed /\ pc = "failed") =>
             (err = "StartIdx" /\ err \in ConfigErrors)

\* A start offset equal to the sample count, refused although M = 0 as well.
C5_Witness ==
    /\ pc = "failed"
    /\ err = "StartIdx"
    /\ inp.args.start_idx = inp.file.ns
    /\ inp.args.M = 0

\* C6: with a selection made (start offset in range; cap, if given, positive)
\* and M > 0, the run fails with the insufficient-data error whenever fewer
\* than M samples are selected, and forms T >= 1 blocks whenever at least M
\* are; no product has T = 0 rows.
C6_InsufficientData ==
    /\ (WellFormed /\ StartInRange /\ CapValid /\ inp.args.M > 0
            /\ Selected < inp.args.M /\ pc \notin {"open", "validate"}) =>
          /\ pc = "failed"
          /\ err = "NotEnoughSamples"
          /\ err \in InsufficientDataErrors
          /\ log = <<>>
          /\ OutUntouched
    /\ (WellFormed /\ StartInRange /\ CapValid /\ inp.args.M > 0
            /\ Selected >= inp.args.M /\ pc \notin {"open", "validate"}) =>
          /\ Passed
          /\ T >= 1
          /\ pc = "done" => Len(log) >= 1
    /\ out.kind = "product" =>
          /\ T >= 1
          /\ Len(out.s1_xx) = T
          /\ Len(out.time_blk) = T

\* A cap that leaves fewer samples than one block needs.
C6_Witness ==
    /\ pc = "failed"
    /\ err = "NotEnoughSamples"
    /\ inp.args.ns_max # <<>>
    /\ inp.args.M > 0
    /\ 0 < Selected
    /\ Selected < inp.args.M
    /\ inp.file.ns - inp.args.start_idx >= inp.args.M

\* C7: blocks are processed in ascending index 0, 1, ...; row k of every
\* dataset holds the result of block k; each row is written once; a run
\* without error ends after exactly T blocks with every row written.
C7_AscendingRows ==
    /\ \A j \in 1..Len(log) : log[j].k = j - 1 /\ log[j].row = j - 1
    /\ out.kind = "product" =>
         /\ Len(log) = k
         /\ k <= T
         /\ \A r \in 1..T :
              IF r <= Len(log)
              THEN /\ out.nwrites[r] = 1
                   /\ out.time_blk[r] = log[r].time_blk
                   /\ out.s1_xx[r] = StoredS1(log[r].s1_xx)
                   /\ out.s1_yy[r] = StoredS1(log[r].s1_yy)
                   /\ out.sk_flags_xx[r] = log[r].flags_xx
                   /\ out.sk_flags_yy[r] = log[r].flags_yy
                   /\ log[r].idx[1] = inp.args.start_idx + (r - 1) * inp.args.M
              ELSE out.nwrites[r] = 0
    /\ pc = "done" =>
         /\ Len(log) = T
         /\ \A r \in 1..T : out.nwrites[r] = 1

\* A finished run of at least three blocks.
C7_Witness ==
    /\ pc = "done"
    /\ T >= 3
    /\ \A r \in 1..T : out.nwrites[r] = 1

\* ================================================================== stage 2
MaxF == 4       \* frequency channels of the SK-stream product: 1..MaxF
MaxFB == 3      \* F_block argument: -1..MaxFB
NRows == 2      \* time blocks (rows) of the SK-stream product
FBWide == 7     \* one wide F_block, on products of FBWide and FBWide + 1 channels
FEx == 10       \* one product of FEx channels integrated with F_block = FBEx
FBEx == 4

\* ------------------------------------------------------------------ float values
\* Stage 2 computes with quotients, so its float64 values are kept as reduced
\* fractions <<num, den>> (arithmetic taken as exact); np.nan is <<0, 0>>.
RECURSIVE GCD(_, _)
GCD(a, b) == IF b = 0 THEN a ELSE GCD(b, a % b)

RNaN == <<0, 0>>
RIsNaN(x) == x[2] = 0
R(n) == <<n, 1>>
RNorm(n, d) ==
    LET g == GCD(Abs(n), d)
    IN  IF n = 0 THEN <<0, 1>> ELSE <<n \div g, d \div g>>
RAdd(x, y) ==
    IF RIsNaN(x) \/ RIsNaN(y) THEN RNaN
    ELSE RNorm(x[1] * y[2] + y[1] * x[2], x[2] * y[2])
\* x * i and x / i for an integer-valued float i (i > 0 in the quotient).
RMulInt(x, i) == IF RIsNaN(x) THEN RNaN ELSE RNorm(x[1] * i, x[2])
RDivInt(x, i) == IF RIsNaN(x) THEN RNaN ELSE RNorm(x[1], x[2] * i)

RECURSIVE RSumSeq(_)
RSumSeq(s) == IF s = <<>> THEN R(0) ELSE RAdd(Head(s), RSumSeq(Tail(s)))

\* ------------------------------------------------------------------ float64 quotient
\* np.divide(s1_sum, n_good) followed by avg_good * float(F_block) (lines
\* 191-199), each rounded to the 53-bit significand of float64 (nearest, ties
\* to even).  x is an integer-valued float 0 <= x < 2^20, n and fb are integers
\* in 1..15.  The result is the number (x*fb*2^s + E) / (n*2^s), kept as
\* <<num, den, E, n, s>> with num/den = x*fb/n reduced; E = 0 says that the
\* result is x*fb/n exactly.  np.nan is <<0, 0, 0, 0, 0>>.
F64NaN == <<0, 0, 0, 0, 0>>

RECURSIVE Pow2(_)
Pow2(j) == IF j = 0 THEN 1 ELSE 2 * Pow2(j - 1)

\* 2^j mod m.
RECURSIVE PowMod(_, _)
PowMod(j, m) ==
    IF j = 0 THEN 1 % m
    ELSE LET h == PowMod(j \div 2, m)
         IN  (h * h * (IF j % 2 = 1 THEN 2 ELSE 1)) % m

\* floor(log2(x / n)) for integers x >= 1, n >= 1.
RECURSIVE Log2Q(_, _)
Log2Q(x, n) ==
    IF x < n THEN Log2Q(2 * x, n) - 1
    ELSE IF x >= 2 * n THEN Log2Q(x \div 2, n) + 1
    ELSE 0

\* The sign of a*2^s + d - b*2^j, -1, 0 or 1, for integers 0 <= a < 2^24,
\* 1 <= b < 16, s >= 32, j >= 32 and |d| < 2^16 (d decides only when the two
\* powers agree).
SignScaled(a, s, d, b, j) ==
    LET sh == s - j
        l == IF sh >= 0 THEN a * Pow2(sh) ELSE a
        r == IF sh >= 0 THEN b ELSE b * Pow2(0 - sh)
    IN  IF sh > 8 THEN 1
        ELSE IF l > r THEN 1
        ELSE IF l < r THEN 0 - 1
        ELSE IF d > 0 THEN 1 ELSE IF d < 0 THEN 0 - 1 ELSE 0

\* The significand of fl(x / n) is Qm = (x*2^s + d1) / n with s = 52 - Log2Q(x, n);
\* d1 is the rounding of the quotient (no tie occurs: 2^s has more factors 2
\* than n).
QuotientRounding(x, n, s) ==
    LET rem == ((x % n) * PowMod(s, n)) % n
    IN  IF 2 * rem < n THEN 0 - rem ELSE n - rem

\* Qm mod 32.
QuotientLowBits(x, n, s, d1) ==
    LET m == 32 * n
    IN  ((((x % m) * PowMod(s, m)) + d1 + m) % m) \div n

\* The number of bits by which Qm * fb exceeds 53: the least t with
\* Qm * fb < 2^(53 + t).
RECURSIVE ExcessBits(_, _, _, _, _, _)
ExcessBits(x, n, fb, s, d1, t) ==
    IF SignScaled(x * fb, s, d1 * fb, n, 53 + t) < 0 THEN t
    ELSE ExcessBits(x, n, fb, s, d1, t + 1)

\* d2 with fl(Qm * fb) = (Qm * fb + d2) / 2^s: the rounding of the product to
\* 53 bits, ties to even.
ProductRounding(qlow, fb, t) ==
    LET p == (qlow * fb) % Pow2(t + 1)
        r == p % Pow2(t)
        odd == p >= Pow2(t)
    IN  IF t = 0 THEN 0
        ELSE IF 2 * r < Pow2(t) \/ (2 * r = Pow2(t) /\ ~odd) THEN 0 - r
        ELSE Pow2(t) - r

\* fl(fl(x / n) * fb).
DivMul64(x, n, fb) ==
    IF x = 0 THEN <<0, 1, 0, 1, 0>>
    ELSE LET s == 52 - Log2Q(x, n)
             d1 == QuotientRounding(x, n, s)
             t == ExcessBits(x, n, fb, s, d1, 0)
             d2 == ProductRounding(QuotientLowBits(x, n, s, d1), fb, t)
             E == d1 * fb + d2 * n
             v == RNorm(x * fb, n)
         IN  IF E = 0 THEN <<v[1], v[2], 0, 1, 0>> ELSE <<v[1], v[2], E, n, s>>

\* A float that is the integer-valued float i exactly.
F64Is(p, i) == p = <<i, 1, 0, 1, 0>>

\* ------------------------------------------------------------------ stage 2 inputs
\* A flag row pattern <<a, b>>: cell (t, f) holds FlagOf((a + b*f + t) % 3).
FlagPatterns == { <<a, b>> : a \in 0..2, b \in 0..1 }
FlagOf(i) == IF i = 0 THEN 0 ELSE IF i = 1 THEN 1 ELSE 0 - 1

\* How the datasets of the product deviate from the shape (NRows, F).
Shapes == {"ok", "fxx_cols", "yy_cols", "fyy_row1", "freq_short", "freq_long",
           "time_long"}

FlagModes == {"separate", "or", "and", "OR", "xor"}

\* The product file and the arguments of rfi_clean.  pols: the polarizations
\* whose s1 and sk_flags datasets are both in the file; axes: freq_hz and
\* time_blk are in the file; px, py: the flag patterns; vx, vy: the power;
\* tail = 1: the channels after the last full block hold other values;
\* masked = 1: the s1 of the channels not good in the mask applied hold other
\* finite values, masked = 2: they hold NaN or an infinity;
\* out_exists: a file is at the output path before the call.
CleanInputs ==
    { c \in [F : 1..MaxF, F_block : (0 - 1)..MaxFB, flag_mode : FlagModes,
             pols : {"both", "xx", "yy", "none"}, axes : BOOLEAN,
             px : FlagPatterns, py : FlagPatterns, vx : {0}, vy : {0},
             tail : {0}, masked : {0}, shape : Shapes, out_exists : BOOLEAN] :
        /\ c.out_exists => c.px = <<1, 1>> /\ c.py = <<0, 1>>
        /\ \/ c.shape = "ok" /\ c.axes /\ c.pols # "none"
           \/ /\ c.px = <<1, 1>> /\ c.py = <<0, 1>>
              /\ \/ c.shape # "ok" /\ c.axes /\ c.pols # "none"
                 \/ c.shape = "ok" /\ (~c.axes \/ c.pols = "none") }
    \cup
    { c \in [F : {FBWide, FBWide + 1, FEx}, F_block : {FBWide, FBEx},
             flag_mode : {"separate", "or"}, pols : {"both", "xx", "yy"},
             axes : {TRUE}, px : FlagPatterns, py : {<<0, 1>>},
             vx : {0, 1}, vy : {0, 1}, tail : {0}, masked : {0}, shape : {"ok"},
             out_exists : {FALSE}] :
        /\ c.vx = c.vy
        /\ c.F = FEx <=> c.F_block = FBEx }

DsRows(c, ds) == IF c.shape = "fyy_row1" /\ ds = "flags_yy" THEN 1 ELSE NRows
DsCols(c, ds) ==
    IF c.shape = "fxx_cols" /\ ds = "flags_xx" THEN c.F + 1
    ELSE IF c.shape = "yy_cols" /\ ds \in {"s1_yy", "flags_yy"} THEN c.F + 1
    ELSE c.F
FreqN(c) ==
    IF c.shape = "freq_short" THEN c.F - 1
    ELSE IF c.shape = "freq_long" THEN c.F + 1 ELSE c.F

\* Channel f, 0-based, lies after the last full block and holds other values.
InTail(c, f) ==
    c.tail = 1 /\ c.F_block >= 1 /\ f >= (c.F \div c.F_block) * c.F_block
TailShift(c, f, d) == IF InTail(c, f) THEN d ELSE 0

\* Cell (t, f), 0-based, of a flag dataset of the product.
FlagValue(c, ds, t, f) ==
    IF ds = "flags_xx"
    THEN FlagOf((c.px[1] + c.px[2] * f + t + TailShift(c, f, 1)) % 3)
    ELSE FlagOf((c.py[1] + c.py[2] * f + t + TailShift(c, f, 1)) % 3)

\* Cell (t, f), 0-based, is not good in the mask rfi_clean applies to the
\* polarization of the s1 dataset ds (on a product of the shape stage 1 writes).
MaskedOut(c, ds, t, f) ==
    LET fx == FlagValue(c, "flags_xx", t, f) # 0
        fy == FlagValue(c, "flags_yy", t, f) # 0
    IN  IF c.pols = "both" /\ c.flag_mode \in {"or", "OR"} THEN fx \/ fy
        ELSE IF c.pols = "both" /\ c.flag_mode = "and" THEN fx /\ fy
        ELSE IF ds = "s1_xx" THEN fx ELSE fy
MaskedShift(c, ds, t, f, d) ==
    IF c.masked = 1 /\ MaskedOut(c, ds, t, f) THEN d ELSE 0

\* Cell (t, f), 0-based, of a dataset of the product.  RNaN in s1 stands for
\* NaN and for an infinity: it is put where the value is multiplied by 0.0
\* only (line 181), which gives NaN for all of them.
DsValue(c, ds, t, f) ==
    IF ds \in {"s1_xx", "s1_yy"} /\ c.masked = 2 /\ MaskedOut(c, ds, t, f)
    THEN RNaN
    ELSE IF ds = "s1_xx"
    THEN R(1 + f + 2 * (f \div 2) + 10 * t + 20 * c.vx + TailShift(c, f, 1000)
             + MaskedShift(c, ds, t, f, 500))
    ELSE IF ds = "s1_yy"
    THEN R(100 + 3 * f + 7 * t + 50 * c.vy + TailShift(c, f, 1000)
             + MaskedShift(c, ds, t, f, 500))
    ELSE FlagValue(c, ds, t, f)

\* f[ds][:] as an array: a sequence of rows.
Dataset(c, ds) ==
    [t \in 1..DsRows(c, ds) |-> [f \in 1..DsCols(c, ds) |-> DsValue(c, ds, t - 1, f - 1)]]
FreqAxis(c) == [f \in 1..FreqN(c) |-> R(100 + 10 * (f - 1) + TailShift(c, f - 1, 5))]
TimeN(c) == IF c.shape = "time_long" THEN NRows + 1 ELSE NRows
TimeAxis(c) == [t \in 1..TimeN(c) |-> 5 + 10 * (t - 1)]

Shape(a) == <<Len(a), Len(a[1])>>

\* str.lower() on the flag modes of the model.
Lower(m) == IF m = "OR" THEN "or" ELSE m

\* ------------------------------------------------------------------ _load_skstream
\* The locals of rfi_clean; <<>> stands for None and for "not set".
NoLocals ==
    [err |-> "none", has_xx |-> FALSE, has_yy |-> FALSE,
     freq |-> <<>>, time_blk |-> <<>>,
     s1_xx |-> <<>>, s1_yy |-> <<>>, flags_xx |-> <<>>, flags_yy |-> <<>>,
     good_xx |-> <<>>, good_yy |-> <<>>, good_comb |-> <<>>,
     good_for_xx |-> <<>>, good_for_yy |-> <<>>, flag_mode |-> "",
     s1_xx_clean |-> <<>>, mask_xx_block |-> <<>>,
     s1_yy_clean |-> <<>>, mask_yy_block |-> <<>>, F_eff |-> <<>>, n_blocks |-> <<>>]

\* Lines 105-141 and 241-246.
load_skstream(c) ==
    LET hx == c.pols \in {"both", "xx"}
        hy == c.pols \in {"both", "yy"}
    IN  IF ~c.axes THEN [NoLocals EXCEPT !.err = "KeyErrorAxes"]
        ELSE IF ~(hx \/ hy) THEN [NoLocals EXCEPT !.err = "KeyErrorPols"]
        ELSE [NoLocals EXCEPT
                !.has_xx = hx, !.has_yy = hy,
                !.freq = FreqAxis(c), !.time_blk = TimeAxis(c),
                !.s1_xx = IF hx THEN Dataset(c, "s1_xx") ELSE <<>>,
                !.flags_xx = IF hx THEN Dataset(c, "flags_xx") ELSE <<>>,
                !.s1_yy = IF hy THEN Dataset(c, "s1_yy") ELSE <<>>,
                !.flags_yy = IF hy THEN Dataset(c, "flags_yy") ELSE <<>>]

\* ------------------------------------------------------------------ masks
\* flags == 0 (lines 256, 261) and flags != 0 (lines 272, 273), cell by cell.
GoodOwn(flags) == [t \in 1..Len(flags) |-> [f \in 1..Len(flags[t]) |-> flags[t][f] = 0]]

\* Mutant: only the flag +1 counts as flagged when the masks are combined.
FlaggedHigh(flags) == [t \in 1..Len(flags) |-> [f \in 1..Len(flags[t]) |-> flags[t][f] = 1]]

\* Lines 272-273: flags != 0.
Flagged(flags) == [t \in 1..Len(flags) |-> [f \in 1..Len(flags[t]) |-> flags[t][f] # 0]]

\* numpy broadcasting of two 2-D shapes.
Broadcastable(sa, sb) ==
    /\ sa[1] = sb[1] \/ sa[1] = 1 \/ sb[1] = 1
    /\ sa[2] = sb[2] \/ sa[2] = 1 \/ sb[2] = 1
Max(a, b) == IF a >= b THEN a ELSE b
BCell(a, t, f) == a[IF Len(a) = 1 THEN 1 ELSE t][IF Len(a[1]) = 1 THEN 1 ELSE f]

\* Mutant: the two combinations exchanged.
CombineSwapped(mode, fxx, fyy) ==
    [t \in 1..Max(Len(fxx), Len(fyy)) |->
       [f \in 1..Max(Len(fxx[1]), Len(fyy[1])) |->
          IF mode = "or" THEN ~(BCell(fxx, t, f) /\ BCell(fyy, t, f))
          ELSE ~(BCell(fxx, t, f) \/ BCell(fyy, t, f))]]

\* Lines 274-278: good_comb = ~(fxx | fyy) under "or", ~(fxx & fyy) otherwise.
Combine(mode, fxx, fyy) ==
    [t \in 1..Max(Len(fxx), Len(fyy)) |->
       [f \in 1..Max(Len(fxx[1]), Len(fyy[1])) |->
          IF mode = "or" THEN ~(BCell(fxx, t, f) \/ BCell(fyy, t, f))
          ELSE ~(BCell(fxx, t, f) /\ BCell(fyy, t, f))]]

\* Mutant: the shared mask is built whenever both polarizations are present.
UsesSharedMaskAnyMode(mode, hx, hy) == hx /\ hy

\* Mutant: the shared mask is built without asking for both polarizations.
UsesSharedMaskAnyPol(mode, hx, hy) == mode \in {"or", "and"}

\* Line 270: the condition under which a shared mask is built.
UsesSharedMask(mode, hx, hy) == mode \in {"or", "and"} /\ hx /\ hy

\* Mutant: every policy string is let through.
ValidModeAny(mode) == TRUE

\* Line 266: flag_mode in ("separate", "or", "and").
ValidMode(mode) == mode \in {"separate", "or", "and"}

\* Lines 250-279 on the locals st.
build_masks(c, st) ==
    LET mode == Lower(c.flag_mode)
        st1 == [st EXCEPT
                  !.good_xx = IF st.has_xx THEN GoodOwn(st.flags_xx) ELSE <<>>,
                  !.good_yy = IF st.has_yy THEN GoodOwn(st.flags_yy) ELSE <<>>,
                  !.flag_mode = mode]
    IN  IF ~ValidMode(mode)
        THEN [st1 EXCEPT !.err = "FlagMode"]
        ELSE IF ~UsesSharedMask(mode, st.has_xx, st.has_yy) THEN st1
        ELSE IF st.flags_xx = <<>> \/ st.flags_yy = <<>>
        THEN [st1 EXCEPT !.err = "KeyErrorFlags"]
        ELSE IF ~Broadcastable(Shape(st.flags_xx), Shape(st.flags_yy))
        THEN [st1 EXCEPT !.err = "Broadcast"]
        ELSE [st1 EXCEPT !.good_comb =
                Combine(mode, Flagged(st.flags_xx), Flagged(st.flags_yy))]

\* ------------------------------------------------------------------ _clean_with_good_mask
\* Mutants below: line 202 left out, so that a block without good channels
\* keeps 0.0; the flagged channels summed with the good ones; the average of
\* the good channels not inflated by F_block.
\* Lines 174-207 for one row t and one block b (1-based) of width fb.  The S1
\* values of the model are integers, so s1_sum is exact; avg_good stays 0.0
\* where n_good = 0 (np.zeros_like, where=).
BlockCells(b, fb) == [i \in 1..fb |-> (b - 1) * fb + i]

\* Mutant: the mask read as a flag, 1.0 for a flagged channel.
GoodFInverted(g) == IF g THEN 0 ELSE 1

\* Line 178: good_eff.astype(float).
GoodF(g) == IF g THEN 1 ELSE 0
CleanCellZero(s1row, goodrow, b, fb) ==
    LET cells == BlockCells(b, fb)
        s1_sum == RSumSeq([i \in 1..fb |-> RMulInt(s1row[cells[i]], GoodF(goodrow[cells[i]]))])
        n_good == SumSeq([i \in 1..fb |-> GoodF(goodrow[cells[i]])])
        s1_clean == IF RIsNaN(s1_sum) THEN F64NaN
                    ELSE IF n_good > 0 THEN DivMul64(s1_sum[1], n_good, fb)
                    ELSE DivMul64(0, 1, fb)
    IN  [s1_clean |-> s1_clean, n_good |-> n_good]

CleanCellUnmasked(s1row, goodrow, b, fb) ==
    LET cells == BlockCells(b, fb)
        s1_sum == RSumSeq([i \in 1..fb |-> s1row[cells[i]]])
        n_good == SumSeq([i \in 1..fb |-> GoodF(goodrow[cells[i]])])
        s1_clean == IF RIsNaN(s1_sum) THEN F64NaN
                    ELSE IF n_good > 0 THEN DivMul64(s1_sum[1], n_good, fb)
                    ELSE DivMul64(0, 1, fb)
    IN  [s1_clean |-> IF n_good = 0 THEN F64NaN ELSE s1_clean, n_good |-> n_good]

CleanCellAverage(s1row, goodrow, b, fb) ==
    LET cells == BlockCells(b, fb)
        s1_sum == RSumSeq([i \in 1..fb |-> RMulInt(s1row[cells[i]], GoodF(goodrow[cells[i]]))])
        n_good == SumSeq([i \in 1..fb |-> GoodF(goodrow[cells[i]])])
        s1_clean == IF RIsNaN(s1_sum) THEN F64NaN
                    ELSE IF n_good > 0 THEN DivMul64(s1_sum[1], n_good, 1)
                    ELSE DivMul64(0, 1, 1)
    IN  [s1_clean |-> IF n_good = 0 THEN F64NaN ELSE s1_clean, n_good |-> n_good]

CleanCell(s1row, goodrow, b, fb) ==
    LET cells == BlockCells(b, fb)
        s1_sum == RSumSeq([i \in 1..fb |-> RMulInt(s1row[cells[i]], GoodF(goodrow[cells[i]]))])
        n_good == SumSeq([i \in 1..fb |-> GoodF(goodrow[cells[i]])])
        s1_clean == IF RIsNaN(s1_sum) THEN F64NaN
                    ELSE IF n_good > 0 THEN DivMul64(s1_sum[1], n_good, fb)
                    ELSE DivMul64(0, 1, fb)
    IN  [s1_clean |-> IF n_good = 0 THEN F64NaN ELSE s1_clean, n_good |-> n_good]

\* Mutant: the block count taken from F - 1.
NBlocksOffByOne(F, F_block) == (F - 1) \div F_block

\* Line 166: n_blocks = F // F_block, for F_block > 0.
NBlocks(F, F_block) == F \div F_block

\* Mutant: no check of n_blocks == 0.
clean_with_good_maskNoEmptyCheck(s1, good, F_block) ==
    LET F == Len(s1[1])
        bad(e) == [err |-> e, s1_clean |-> <<>>, mask_block |-> <<>>,
                   F_eff |-> 0, n_blocks |-> 0]
    IN  IF Shape(s1) # Shape(good) THEN bad("ShapeMismatch")
        ELSE IF F_block <= 0 THEN bad("FBlock")
        ELSE LET n_blocks == NBlocks(F, F_block)
                 cell(t, b) == CleanCell(s1[t], good[t], b, F_block)
             IN  [err |-> "none",
                  s1_clean |-> [t \in 1..Len(s1) |-> [b \in 1..n_blocks |-> cell(t, b).s1_clean]],
                  mask_block |-> [t \in 1..Len(s1) |-> [b \in 1..n_blocks |-> cell(t, b).n_good]],
                  F_eff |-> n_blocks * F_block,
                  n_blocks |-> n_blocks]

\* Lines 159-207: the exception raised, or the four values returned.
clean_with_good_mask(s1, good, F_block) ==
    LET F == Len(s1[1])
        bad(e) == [err |-> e, s1_clean |-> <<>>, mask_block |-> <<>>,
                   F_eff |-> 0, n_blocks |-> 0]
    IN  IF Shape(s1) # Shape(good) THEN bad("ShapeMismatch")
        ELSE IF F_block <= 0 THEN bad("FBlock")
        ELSE IF NBlocks(F, F_block) = 0 THEN bad("FTooSmall")
        ELSE LET n_blocks == NBlocks(F, F_block)
                 cell(t, b) == CleanCell(s1[t], good[t], b, F_block)
             IN  [err |-> "none",
                  s1_clean |-> [t \in 1..Len(s1) |-> [b \in 1..n_blocks |-> cell(t, b).s1_clean]],
                  mask_block |-> [t \in 1..Len(s1) |-> [b \in 1..n_blocks |-> cell(t, b).n_good]],
                  F_eff |-> n_blocks * F_block,
                  n_blocks |-> n_blocks]

\* ------------------------------------------------------------------ rfi_clean
\* Mutant: each polarization keeps its own mask.
GoodForOwn(good_comb, good_own) == good_own

\* Lines 288 and 297: good_comb if good_comb is not None else good_<pol>.
GoodFor(good_comb, good_own) == IF good_comb # <<>> THEN good_comb ELSE good_own

\* Lines 286-293.
clean_xx(c, st) ==
    IF ~st.has_xx THEN st
    ELSE LET g == GoodFor(st.good_comb, st.good_xx)
             r == clean_with_good_mask(st.s1_xx, g, c.F_block)
         IN  IF r.err # "none" THEN [st EXCEPT !.err = r.err, !.good_for_xx = g]
             ELSE [st EXCEPT !.good_for_xx = g,
                             !.s1_xx_clean = r.s1_clean, !.mask_xx_block = r.mask_block,
                             !.F_eff = <<r.F_eff>>, !.n_blocks = <<r.n_blocks>>]

\* Mutant: the results of XX and YY are never compared.
InconsistentNever(F_eff, n_blocks, F_eff_yy, n_blocks_yy) == FALSE

\* Line 305: (F_eff != F_eff_yy) or (n_blocks != n_blocks_yy).
Inconsistent(F_eff, n_blocks, F_eff_yy, n_blocks_yy) ==
    F_eff # F_eff_yy \/ n_blocks # n_blocks_yy

\* Lines 295-308.
clean_yy(c, st) ==
    IF ~st.has_yy THEN st
    ELSE LET g == GoodFor(st.good_comb, st.good_yy)
             r == clean_with_good_mask(st.s1_yy, g, c.F_block)
         IN  IF r.err # "none" THEN [st EXCEPT !.err = r.err, !.good_for_yy = g]
             ELSE IF st.F_eff = <<>>
             THEN [st EXCEPT !.good_for_yy = g,
                             !.s1_yy_clean = r.s1_clean, !.mask_yy_block = r.mask_block,
                             !.F_eff = <<r.F_eff>>, !.n_blocks = <<r.n_blocks>>]
             ELSE IF Inconsistent(st.F_eff[1], st.n_blocks[1], r.F_eff, r.n_blocks)
             THEN [st EXCEPT !.err = "Inconsistent", !.good_for_yy = g,
                             !.s1_yy_clean = r.s1_clean, !.mask_yy_block = r.mask_block]
             ELSE [st EXCEPT !.good_for_yy = g,
                             !.s1_yy_clean = r.s1_clean, !.mask_yy_block = r.mask_block]

\* Lines 316-317: freq[:F_eff].reshape(n_blocks, F_block).mean(axis=1), or <<>>
\* when the reshape raises.
freq_blocks(freq, F_eff, n_blocks, F_block) ==
    IF Min(Len(freq), F_eff) # n_blocks * F_block THEN <<>>
    ELSE [b \in 1..n_blocks |->
            RDivInt(RSumSeq([i \in 1..F_block |-> freq[(b - 1) * F_block + i]]), F_block)]

NoFile ==
    [kind |-> "absent", time_blk |-> <<>>, freq_block_hz |-> <<>>,
     s1_xx_clean |-> <<>>, mask_xx |-> <<>>, s1_yy_clean |-> <<>>, mask_yy |-> <<>>,
     F_block |-> 0, flag_mode |-> "", F_eff |-> 0, n_blocks |-> 0]

\* The file found at the output path before the call, if any.
OldCleanProduct == [NoFile EXCEPT !.kind = "old"]
InitialOutput(c) == IF c.out_exists THEN OldCleanProduct ELSE NoFile

\* Mutant: the output is opened for writing before the checks of 310-317.
DestinationOpenedFirst(r, old) ==
    IF r.err = "none" THEN r.file ELSE [NoFile EXCEPT !.kind = "product"]

\* Lines 310-325: h5py.File(out_path, "w") is reached only if nothing raised;
\* it replaces whatever file is at the path.
Destination(r, old) == IF r.err = "none" THEN r.file ELSE old

\* Lines 310-348: the exception raised ("none" if the file is written) and the
\* file written.
write_output(c, st) ==
    IF st.F_eff = <<>> \/ st.n_blocks = <<>>
    THEN [err |-> "NothingCleaned", file |-> NoFile]
    ELSE LET fb == freq_blocks(st.freq, st.F_eff[1], st.n_blocks[1], c.F_block)
         IN  IF fb = <<>> THEN [err |-> "FreqReshape", file |-> NoFile]
             ELSE [err |-> "none",
                   file |-> [kind |-> "product",
                             time_blk |-> st.time_blk,
                             freq_block_hz |-> fb,
                             s1_xx_clean |-> IF st.has_xx THEN st.s1_xx_clean ELSE <<>>,
                             mask_xx |-> IF st.has_xx THEN st.mask_xx_block ELSE <<>>,
                             s1_yy_clean |-> IF st.has_yy THEN st.s1_yy_clean ELSE <<>>,
                             mask_yy |-> IF st.has_yy THEN st.mask_yy_block ELSE <<>>,
                             F_block |-> c.F_block, flag_mode |-> st.flag_mode,
                             F_eff |-> st.F_eff[1], n_blocks |-> st.n_blocks[1]]]

\* ------------------------------------------------------------------ stage 2 actions
Idle1 ==
    /\ inp = <<>>
    /\ pc = "idle"
    /\ err = "none"
    /\ fin = "unopened"
    /\ fout = "unopened"
    /\ T = 0
    /\ ns_eff = 0
    /\ thr = <<>>
    /\ k = 0
    /\ out = Absent
    /\ log = <<>>

Init2 ==
    /\ cin \in CleanInputs
    /\ cpc = "load"
    /\ cerr = "none"
    /\ cst = NoLocals
    /\ cout = InitialOutput(cin)

\* One step of rfi_clean: the locals become st; an exception ends the run.
Advance(from, to, st) ==
    /\ cpc = from
    /\ cst' = st
    /\ cerr' = st.err
    /\ cpc' = IF st.err = "none" THEN to ELSE "failed"
    /\ UNCHANGED <<cin, cout>>

\* Lines 241-248.
LoadSkstream == Advance("load", "masks", load_skstream(cin))

\* Lines 250-279.
BuildMasks == Advance("masks", "clean_xx", build_masks(cin, cst))

\* Lines 286-293.
CleanXX == Advance("clean_xx", "clean_yy", clean_xx(cin, cst))

\* Lines 295-308.
CleanYY == Advance("clean_yy", "write", clean_yy(cin, cst))

\* Lines 310-351.
WriteOutput ==
    /\ cpc = "write"
    /\ LET r == write_output(cin, cst)
       IN  /\ cerr' = r.err
           /\ cout' = Destination(r, cout)
           /\ cpc' = IF r.err = "none" THEN "done" ELSE "failed"
    /\ UNCHANGED <<cin, cst>>

Next2 ==
    \/ LoadSkstream
    \/ BuildMasks
    \/ CleanXX
    \/ CleanYY
    \/ WriteOutput

InitClean == Idle1 /\ Init2
NextClean == Next2 /\ UNCHANGED vars1
SpecClean == InitClean /\ [][NextClean]_vars

\* rfi_clean from call to return or exception, as one function of its input.
RunClean(c) ==
    LET a == load_skstream(c)
        b == IF a.err = "none" THEN build_masks(c, a) ELSE a
        x == IF b.err = "none" THEN clean_xx(c, b) ELSE b
        y == IF x.err = "none" THEN clean_yy(c, x) ELSE x
        w == IF y.err = "none" THEN write_output(c, y) ELSE [err |-> y.err, file |-> NoFile]
    IN  w

\* ------------------------------------------------------------------ stage 2 claims
CleanEnded == cpc \in {"done", "failed"}

\* The output path holds what it held before the call.
NoOutput == cout = InitialOutput(cin)

\* Cell (t, f), 1-based, of a flag dataset of the product read.
FlagXX(t, f) == DsValue(cin, "flags_xx", t - 1, f - 1)
FlagYY(t, f) == DsValue(cin, "flags_yy", t - 1, f - 1)

\* The mask is the array of (flag == 0) over the whole flag dataset ds.
IsOwnMask(mask, ds) ==
    /\ Len(mask) = DsRows(cin, ds)
    /\ \A t \in 1..Len(mask) :
         /\ Len(mask[t]) = DsCols(cin, ds)
         /\ \A f \in 1..Len(mask[t]) :
              mask[t][f] = (DsValue(cin, ds, t - 1, f - 1) = 0)

\* The products that differ from c in nothing but YY (its flags, its power,
\* its presence), and in nothing but XX.
VaryYY(c) ==
    { [c EXCEPT !.py = p, !.vy = v, !.pols = q] :
        p \in FlagPatterns, v \in {0, 1, 2}, q \in {"both", "xx"} }
VaryXX(c) ==
    { [c EXCEPT !.px = p, !.vx = v, !.pols = q] :
        p \in FlagPatterns, v \in {0, 1, 2}, q \in {"both", "yy"} }

\* C8: under 'separate' the mask applied to a polarization is exactly (its
\* own flag == 0); and for a product whose datasets have the common shape
\* (T, F), the outcome for XX (error or not, s1_xx_clean, mask_xx) is the
\* one rfi_clean gives for every other YY flags and power and for YY absent,
\* and symmetrically for YY.
C8_SeparateIndependent ==
    (cst.flag_mode = "separate" /\ cerr # "FlagMode") =>
        /\ cst.good_comb = <<>>
        /\ cst.good_for_xx # <<>> => IsOwnMask(cst.good_for_xx, "flags_xx")
        /\ cst.good_for_yy # <<>> => IsOwnMask(cst.good_for_yy, "flags_yy")
        /\ (cpc \in {"clean_yy", "write", "done"} /\ cst.has_xx) => cst.good_for_xx # <<>>
        /\ (cpc \in {"write", "done"} /\ cst.has_yy) => cst.good_for_yy # <<>>
        /\ (CleanEnded /\ cin.shape = "ok" /\ cst.has_xx) =>
             \A c2 \in VaryYY(cin) :
                 LET r == RunClean(c2)
                 IN  /\ r.err = cerr
                     /\ r.file.s1_xx_clean = cout.s1_xx_clean
                     /\ r.file.mask_xx = cout.mask_xx
        /\ (CleanEnded /\ cin.shape = "ok" /\ cst.has_yy) =>
             \A c2 \in VaryXX(cin) :
                 LET r == RunClean(c2)
                 IN  /\ r.err = cerr
                     /\ r.file.s1_yy_clean = cout.s1_yy_clean
                     /\ r.file.mask_yy = cout.mask_yy

\* A finished 'separate' run on both polarizations where XX has a flagged
\* channel that YY has not, and the masks written differ.
C8_Witness ==
    /\ cpc = "done"
    /\ cst.flag_mode = "separate"
    /\ cin.pols = "both"
    /\ \E t \in 1..NRows, f \in 1..cin.F : FlagXX(t, f) # 0 /\ FlagYY(t, f) = 0
    /\ cout.mask_xx # cout.mask_yy

\* C9: with both polarizations present the shared mask is built exactly
\* under 'or' and 'and', it is the mask applied to XX and to YY, and in every
\* cell it is NOT(fxx # 0 OR fyy # 0) under 'or' and NOT(fxx # 0 AND fyy # 0)
\* under 'and'.
C9_CombinedMask ==
    /\ cst.good_comb # <<>> =>
         /\ cst.flag_mode \in {"or", "and"}
         /\ cst.has_xx /\ cst.has_yy
         /\ \A t \in 1..Min(DsRows(cin, "flags_xx"), DsRows(cin, "flags_yy")) :
              \A f \in 1..Min(DsCols(cin, "flags_xx"), DsCols(cin, "flags_yy")) :
                 cst.good_comb[t][f] =
                    IF cst.flag_mode = "or"
                    THEN ~(FlagXX(t, f) # 0 \/ FlagYY(t, f) # 0)
                    ELSE ~(FlagXX(t, f) # 0 /\ FlagYY(t, f) # 0)
         /\ cin.shape = "ok" => Shape(cst.good_comb) = <<NRows, cin.F>>
         /\ cst.good_for_xx # <<>> => cst.good_for_xx = cst.good_comb
         /\ cst.good_for_yy # <<>> => cst.good_for_yy = cst.good_comb
    /\ (cpc \in {"clean_xx", "clean_yy", "write", "done"}
            /\ cin.pols = "both" /\ Lower(cin.flag_mode) \in {"or", "and"}) =>
         cst.good_comb # <<>>

\* A finished 'and' run with a cell flagged in XX only (good under 'and')
\* and a cell flagged in both (not good).
C9_Witness ==
    /\ cpc = "done"
    /\ cst.flag_mode = "and"
    /\ cin.pols = "both"
    /\ \E t \in 1..NRows, f \in 1..cin.F :
         FlagXX(t, f) # 0 /\ FlagYY(t, f) = 0 /\ cst.good_for_xx[t][f]
    /\ \E t \in 1..NRows, f \in 1..cin.F :
         FlagXX(t, f) # 0 /\ FlagYY(t, f) # 0 /\ ~cst.good_for_yy[t][f]

\* The datasets of a stage-2 product.
Datasets(file) ==
    <<file.s1_xx_clean, file.mask_xx, file.s1_yy_clean, file.mask_yy,
      file.freq_block_hz, file.time_blk>>

\* C10: with one polarization present and the policy 'or' or 'and', no shared
\* mask is built, the run ends as the 'separate' run on the same input and
\* F_block ends (it fails only where that one fails), and the datasets
\* written are those of the 'separate' run.
C10_SinglePolFallback ==
    (cin.pols \in {"xx", "yy"} /\ Lower(cin.flag_mode) \in {"or", "and"}) =>
        /\ cst.good_comb = <<>>
        /\ cerr \notin {"KeyErrorFlags", "Broadcast", "FlagMode"}
        /\ CleanEnded =>
             LET sep == RunClean([cin EXCEPT !.flag_mode = "separate"])
             IN  /\ cerr = sep.err
                 /\ cpc = "done" <=> sep.err = "none"
                 /\ cpc = "done" => Datasets(cout) = Datasets(sep.file)
        /\ (CleanEnded /\ cin.shape = "ok" /\ cin.axes
                /\ 1 <= cin.F_block /\ cin.F_block <= cin.F) => cpc = "done"

\* A finished 'and' run on a product holding YY only, with a flagged channel.
C10_Witness ==
    /\ cpc = "done"
    /\ cin.pols = "yy"
    /\ cst.flag_mode = "and"
    /\ cout.s1_xx_clean = <<>>
    /\ \E t \in 1..NRows, b \in 1..cout.n_blocks : cout.mask_yy[t][b] < cin.F_block

\* C11: under 'or' or 'and' with both polarizations present, XX and YY are
\* integrated against one and the same mask; in the product written mask_xx
\* and mask_yy are equal in every cell, s1_xx_clean and s1_yy_clean have one
\* shape, and s1_xx_clean is NaN at exactly the cells where s1_yy_clean is.
C11_SharedMaskBoth ==
    (cst.flag_mode \in {"or", "and"} /\ cin.pols = "both") =>
        /\ (cst.good_for_xx # <<>> /\ cst.good_for_yy # <<>>) =>
               cst.good_for_xx = cst.good_for_yy
        /\ cpc = "done" =>
               /\ cout.mask_xx = cout.mask_yy
               /\ Shape(cout.mask_xx) = <<NRows, cout.n_blocks>>
               /\ Shape(cout.s1_xx_clean) = Shape(cout.s1_yy_clean)
               /\ \A t \in 1..NRows, b \in 1..cout.n_blocks :
                      RIsNaN(cout.s1_xx_clean[t][b]) <=> RIsNaN(cout.s1_yy_clean[t][b])

\* A finished 'or' run on both polarizations whose own flags differ in some
\* cell, with an undefined cell and a partly flagged block in the product.
C11_Witness ==
    /\ cpc = "done"
    /\ cst.flag_mode = "or"
    /\ cin.pols = "both"
    /\ \E t \in 1..NRows, f \in 1..cin.F : FlagXX(t, f) = 0 /\ FlagYY(t, f) # 0
    /\ \E t \in 1..NRows, b \in 1..cout.n_blocks :
          RIsNaN(cout.s1_xx_clean[t][b]) /\ RIsNaN(cout.s1_yy_clean[t][b])
    /\ \E t \in 1..NRows, b \in 1..cout.n_blocks :
          0 < cout.mask_yy[t][b] /\ cout.mask_yy[t][b] < cin.F_block

\* The products that differ from c in nothing but the channels after the last
\* full block (power, flags and frequency labels there).
VaryTail(c) == [c EXCEPT !.tail = 1]

\* A product and arguments on which no check of rfi_clean can fail but those
\* on F_block.
WellFormedClean(c) ==
    c.shape = "ok" /\ c.axes /\ c.pols # "none"
        /\ Lower(c.flag_mode) \in {"separate", "or", "and"}

\* C12: a run on F channels with 1 <= F_block <= F ends with a product;
\* every product has n_blocks = floor(F / F_block) and F_eff = n_blocks *
\* F_block, with F the channels of each polarization integrated; each of
\* s1_<pol>_clean, mask_<pol> has n_blocks columns and freq_block_hz n_blocks
\* entries; and the product is the one written when the F - F_eff trailing
\* channels hold other power, flags and frequencies.
C12_FrequencyBlocks ==
    /\ (CleanEnded /\ WellFormedClean(cin) /\ 1 <= cin.F_block /\ cin.F_block <= cin.F) =>
          cpc = "done"
    /\ cpc = "done" =>
          /\ cin.F_block >= 1
          /\ cout.F_eff = cout.n_blocks * cin.F_block
          /\ Len(cout.freq_block_hz) = cout.n_blocks
          /\ cst.has_xx =>
                /\ cout.n_blocks = DsCols(cin, "s1_xx") \div cin.F_block
                /\ Shape(cout.s1_xx_clean) = <<NRows, cout.n_blocks>>
                /\ Shape(cout.mask_xx) = <<NRows, cout.n_blocks>>
          /\ cst.has_yy =>
                /\ cout.n_blocks = DsCols(cin, "s1_yy") \div cin.F_block
                /\ Shape(cout.s1_yy_clean) = <<NRows, cout.n_blocks>>
                /\ Shape(cout.mask_yy) = <<NRows, cout.n_blocks>>
          /\ cin.shape = "ok" =>
                LET r == RunClean(VaryTail(cin))
                IN  r.err = "none" /\ Datasets(r.file) = Datasets(cout)

\* The finished run of the example: F = 10, F_block = 4 gives two blocks over
\* 8 channels, and the product does not change with the last 2 channels.
C12_Witness ==
    /\ cpc = "done"
    /\ cin.F = 10 /\ cin.F_block = 4 /\ cin.pols = "both"
    /\ cout.n_blocks = 2 /\ cout.F_eff = 8
    /\ Len(cout.freq_block_hz) = 2 /\ Len(cout.s1_xx_clean[1]) = 2
    /\ Dataset(VaryTail(cin), "s1_xx")[1][9] # Dataset(cin, "s1_xx")[1][9]
    /\ Dataset(VaryTail(cin), "flags_yy")[1][10] # Dataset(cin, "flags_yy")[1][10]
    /\ Dataset(VaryTail(cin), "s1_xx")[1][8] = Dataset(cin, "s1_xx")[1][8]

\* The channels (1-based) of frequency block b, and the good ones among them
\* in row t of the mask good.
ChannelsOfBlock(b) == ((b - 1) * cin.F_block + 1)..(b * cin.F_block)
GoodChannels(good, t, b) == { f \in ChannelsOfBlock(b) : good[t][f] }

\* mask[t][b] is the number of good channels of block b in row t of good.
CountsGood(mask, good) ==
    \A t \in 1..NRows, b \in 1..cout.n_blocks :
        /\ mask[t][b] = Cardinality(GoodChannels(good, t, b))
        /\ 0 <= mask[t][b]
        /\ mask[t][b] <= cin.F_block

\* C13: in every product written, every cell (t, block) of mask_xx and of
\* mask_yy is the number of channels of that block that are good in the mask
\* applied to the polarization, hence between 0 and F_block.
C13_GoodCount ==
    cpc = "done" =>
        /\ cst.has_xx => CountsGood(cout.mask_xx, cst.good_for_xx)
        /\ cst.has_yy => CountsGood(cout.mask_yy, cst.good_for_yy)

\* A product with F_block >= 2 holding a block with no good channel, a block
\* with all channels good and a block with some but not all.
C13_Witness ==
    /\ cpc = "done"
    /\ cin.F_block >= 2
    /\ cin.pols = "both"
    /\ \E t \in 1..NRows, b \in 1..cout.n_blocks : cout.mask_xx[t][b] = 0
    /\ \E t \in 1..NRows, b \in 1..cout.n_blocks : cout.mask_xx[t][b] = cin.F_block
    /\ \E t \in 1..NRows, b \in 1..cout.n_blocks :
          0 < cout.mask_yy[t][b] /\ cout.mask_yy[t][b] < cin.F_block

\* The sum of the S1 values of dataset ds over the channels of block b, row t,
\* of the product read (integers in the model).
BlockSum(ds, t, b) ==
    SumSeq([i \in 1..cin.F_block |->
              DsValue(cin, ds, t - 1, (b - 1) * cin.F_block + i - 1)[1]])

\* |v - x*fb/n| <= 2^-51 * x*fb/n for the float v = <<_, _, E, n, s>> computed
\* from the sum x > 0 with n good channels: |E| * 2^51 <= x * fb * 2^s.
WithinRounding(v, x, fb) ==
    \/ v[3] = 0
    \/ /\ x > 0
       /\ IF v[5] >= 51 THEN Abs(v[3]) <= x * fb * Pow2(Min(v[5] - 51, 8))
          ELSE Abs(v[3]) * Pow2(51 - v[5]) <= x * fb

\* The F_block for which (x / F_block) * F_block = x for every float x.
RoundTripBlocks == {1, 2, 3, 4, 5, 6, 8}

\* Every cell with all F_block channels good satisfies P(value, sum).
AllGoodCells(P(_, _)) ==
    /\ cst.has_xx =>
          \A t \in 1..NRows, b \in 1..cout.n_blocks :
              cout.mask_xx[t][b] = cin.F_block =>
                  P(cout.s1_xx_clean[t][b], BlockSum("s1_xx", t, b))
    /\ cst.has_yy =>
          \A t \in 1..NRows, b \in 1..cout.n_blocks :
              cout.mask_yy[t][b] = cin.F_block =>
                  P(cout.s1_yy_clean[t][b], BlockSum("s1_yy", t, b))

NaNWhereNoGood(s1_clean, mask) ==
    \A t \in 1..NRows, b \in 1..cout.n_blocks :
        IF mask[t][b] = 0
        THEN s1_clean[t][b] = F64NaN
        ELSE ~RIsNaN(s1_clean[t][b]) /\ s1_clean[t][b][2] >= 1

\* C15: in every product written from finite S1, s1_clean is the NaN
\* sentinel in every cell (t, block) with n_good = 0, and a number in every
\* cell with n_good > 0.
C15_NaNSentinel ==
    cpc = "done" =>
        /\ cst.has_xx => NaNWhereNoGood(cout.s1_xx_clean, cout.mask_xx)
        /\ cst.has_yy => NaNWhereNoGood(cout.s1_yy_clean, cout.mask_yy)

\* A product with an undefined cell (all channels of the block flagged) in
\* XX, a defined cell in XX, and a partly flagged, defined cell in YY.
C15_Witness ==
    /\ cpc = "done"
    /\ cin.pols = "both"
    /\ cin.F_block >= 2
    /\ \E t \in 1..NRows, b \in 1..cout.n_blocks :
          cout.mask_xx[t][b] = 0 /\ RIsNaN(cout.s1_xx_clean[t][b])
    /\ \E t \in 1..NRows, b \in 1..cout.n_blocks :
          cout.mask_xx[t][b] > 0 /\ ~RIsNaN(cout.s1_xx_clean[t][b])
    /\ \E t \in 1..NRows, b \in 1..cout.n_blocks :
          /\ 0 < cout.mask_yy[t][b] /\ cout.mask_yy[t][b] < cin.F_block
          /\ ~RIsNaN(cout.s1_yy_clean[t][b])

\* The sum of the S1 values of dataset ds over the channels of block b, row t,
\* that are good in the mask good.
GoodSum(ds, good, t, b) ==
    SumSeq([i \in 1..cin.F_block |->
              LET f == (b - 1) * cin.F_block + i
              IN  IF good[t][f] THEN DsValue(cin, ds, t - 1, f - 1)[1] ELSE 0])

\* Every cell with n_good > 0 satisfies P(value, sum over the good channels,
\* n_good).
DefinedCells(P(_, _, _)) ==
    /\ cst.has_xx =>
          \A t \in 1..NRows, b \in 1..cout.n_blocks :
              cout.mask_xx[t][b] > 0 =>
                  P(cout.s1_xx_clean[t][b],
                    GoodSum("s1_xx", cst.good_for_xx, t, b), cout.mask_xx[t][b])
    /\ cst.has_yy =>
          \A t \in 1..NRows, b \in 1..cout.n_blocks :
              cout.mask_yy[t][b] > 0 =>
                  P(cout.s1_yy_clean[t][b],
                    GoodSum("s1_yy", cst.good_for_yy, t, b), cout.mask_yy[t][b])

\* C16 as stated: wherever n_good > 0, s1_clean * n_good = s1_sum * F_block
\* with s1_sum the sum of S1 over the good channels of the block.
C16_Original ==
    cpc = "done" =>
        DefinedCells(LAMBDA v, x, n :
            v = <<RNorm(x * cin.F_block, n)[1], RNorm(x * cin.F_block, n)[2], 0, 1, 0>>)

\* C16 (amended): wherever n_good > 0, s1_clean is the float64 value of
\* (s1_sum / n_good) * F_block with s1_sum the sum of S1 over the good
\* channels of the block; s1_clean * n_good = s1_sum * F_block holds exactly
\* when neither the quotient nor the product needs rounding (here: when
\* n_good divides s1_sum), and otherwise up to a relative rounding error of
\* 2^-51.
C16_Amended ==
    cpc = "done" =>
        DefinedCells(LAMBDA v, x, n :
            /\ <<v[1], v[2]>> = RNorm(x * cin.F_block, n)
            /\ x % n = 0 => v[3] = 0
            /\ WithinRounding(v, x, cin.F_block))

\* A product with a partly flagged block whose cleaned value is rounded, and
\* a partly flagged block whose cleaned value is exact.
C16_Witness ==
    /\ cpc = "done"
    /\ cst.has_xx
    /\ \E t \in 1..NRows, b \in 1..cout.n_blocks :
          /\ 0 < cout.mask_xx[t][b] /\ cout.mask_xx[t][b] < cin.F_block
          /\ cout.s1_xx_clean[t][b][3] # 0
    /\ \E t \in 1..NRows, b \in 1..cout.n_blocks :
          /\ 0 < cout.mask_xx[t][b] /\ cout.mask_xx[t][b] < cin.F_block
          /\ cout.s1_xx_clean[t][b][3] = 0
          /\ cout.s1_xx_clean[t][b][1] >
                GoodSum("s1_xx", cst.good_for_xx, t, b) * cout.s1_xx_clean[t][b][2]

\* The S1 datasets of the polarizations present in the product read.
PresentS1 ==
    (IF cin.pols \in {"both", "xx"} THEN {"s1_xx"} ELSE {})
        \cup (IF cin.pols \in {"both", "yy"} THEN {"s1_yy"} ELSE {})

\* C17: a run with F_block > 0 on a product whose S1 arrays have fewer than
\* F_block channels fails and writes no product; when nothing else is wrong
\* with the product and the policy, it fails with the 'F is smaller than
\* F_block' error of line 169, raised for the first polarization integrated
\* (XX if present, else YY).
C17_TooFewChannels ==
    (cin.F_block > 0 /\ \A ds \in PresentS1 : DsCols(cin, ds) < cin.F_block) =>
        /\ cpc # "done"
        /\ NoOutput
        /\ cst.s1_xx_clean = <<>> /\ cst.s1_yy_clean = <<>>
        /\ CleanEnded => cpc = "failed" /\ cerr # "none"
        /\ (CleanEnded /\ WellFormedClean(cin)) =>
              /\ cerr = "FTooSmall"
              /\ cin.pols = "yy" <=> cst.good_for_xx = <<>>
              /\ cin.pols = "yy" <=> cst.good_for_yy # <<>>

\* A run on YY alone that failed for F = F_block - 1 with some channel good.
C17_Witness ==
    /\ cpc = "failed"
    /\ cerr = "FTooSmall"
    /\ cin.pols = "yy"
    /\ cin.F = cin.F_block - 1
    /\ cin.F >= 2
    /\ \E f \in 1..cin.F : cst.good_for_yy[1][f]
    /\ cout = NoFile

\* The product read has both axes, a polarization, and datasets of the
\* common shape (T, F).
WellFormedProduct(c) == c.shape = "ok" /\ c.axes /\ c.pols # "none"

\* The policy strings of the model that are one of separate / or / and up to
\* the case of their letters.
PoliciesUpToCase == {"separate", "or", "and", "OR"}

\* C18 as stated: a run with F_block <= 0 or with a policy that is not one
\* of separate / or / and fails and writes no output.
C18_Original ==
    (CleanEnded /\ (cin.F_block <= 0 \/ cin.flag_mode \notin {"separate", "or", "and"})) =>
        cpc = "failed" /\ NoOutput

\* C18 (amended): a run with F_block <= 0, or with a policy that is not one
\* of separate / or / and when its letters are put in lower case, fails and
\* writes no output, whatever the flags and the power in the product; on a
\* product with the datasets and shapes stage 1 writes the error is the
\* 'flag_mode must be one of' error for such a policy, and the 'F_block must
\* be > 0' error otherwise.
C18_Amended ==
    (cin.F_block <= 0 \/ cin.flag_mode \notin PoliciesUpToCase) =>
        /\ cpc # "done"
        /\ NoOutput
        /\ cst.s1_xx_clean = <<>> /\ cst.s1_yy_clean = <<>>
        /\ CleanEnded => cpc = "failed" /\ cerr # "none"
        /\ (CleanEnded /\ WellFormedProduct(cin)) =>
              cerr = IF cin.flag_mode \notin PoliciesUpToCase THEN "FlagMode" ELSE "FBlock"

\* A run that failed on F_block = 0 under a valid policy, on a product of
\* both polarizations with good and flagged channels.
C18_Witness ==
    /\ cpc = "failed"
    /\ cerr = "FBlock"
    /\ cin.F_block = 0
    /\ cin.flag_mode = "OR"
    /\ cin.pols = "both"
    /\ \E f \in 1..cin.F : cst.good_for_xx[1][f]
    /\ \E f \in 1..cin.F : ~cst.good_for_xx[1][f]
    /\ cout = NoFile

\* A run that failed on the policy 'xor' with a valid F_block.
C18_WitnessPolicy ==
    /\ cpc = "failed"
    /\ cerr = "FlagMode"
    /\ cin.flag_mode = "xor"
    /\ 1 <= cin.F_block /\ cin.F_block <= cin.F
    /\ cout = NoFile

\* Shape of a dataset of the product read.
DsShape(ds) == <<DsRows(cin, ds), DsCols(cin, ds)>>

\* The flag array of a polarization present differs in shape from its power
\* array; the policy combines the flag arrays of XX and YY.
OwnFlagsMismatch ==
    \/ cin.pols \in {"both", "xx"} /\ DsShape("s1_xx") # DsShape("flags_xx")
    \/ cin.pols \in {"both", "yy"} /\ DsShape("s1_yy") # DsShape("flags_yy")
CombinesFlags == cin.pols = "both" /\ Lower(cin.flag_mode) \in {"or", "and"}

\* C19: a run under a valid policy and with 1 <= F_block <= F (so that no
\* other check fails first) on a product in which a polarization's s1 and
\* its own flag array differ in shape, or, under 'or'/'and', the XX
\* and YY flag arrays differ in shape from each other or from either power
\* array, fails with a shape-mismatch error (the check of line 159, or the
\* refusal of numpy to combine the flag arrays) and writes no output.
C19_Claim ==
    (CleanEnded /\ cin.axes /\ cin.pols # "none"
        /\ Lower(cin.flag_mode) \in {"separate", "or", "and"}
        /\ 1 <= cin.F_block /\ cin.F_block <= cin.F
        /\ \/ OwnFlagsMismatch
           \/ CombinesFlags /\ DsShape("flags_xx") # DsShape("flags_yy")
           \/ CombinesFlags /\ DsShape("flags_xx") # DsShape("s1_yy")
           \/ CombinesFlags /\ DsShape("flags_yy") # DsShape("s1_xx")) =>
        /\ cpc = "failed"
        /\ cerr \in {"ShapeMismatch", "Broadcast"}
        /\ NoOutput

\* Both polarizations have been integrated: both calls of
\* _clean_with_good_mask returned.
BothIntegrated == cst.s1_xx_clean # <<>> /\ cst.s1_yy_clean # <<>>

\* n_blocks and F_eff as derived from the S1 array ds of the product read.
BlocksOf(ds) == DsCols(cin, ds) \div cin.F_block
EffOf(ds) == BlocksOf(ds) * cin.F_block

\* C20: once both polarizations are integrated, a run whose (F_eff,
\* n_blocks) for XX and for YY differ has failed with the 'Inconsistent F_eff
\* or n_blocks' error and written nothing, and that error is raised in no
\* other case; every product written with both polarizations has one F_eff
\* and one n_blocks, those of XX and of YY, and s1_xx_clean, mask_xx,
\* s1_yy_clean and mask_yy all have n_blocks columns.
C20_ConsistentBlocks ==
    /\ BothIntegrated =>
          IF <<EffOf("s1_xx"), BlocksOf("s1_xx")>> # <<EffOf("s1_yy"), BlocksOf("s1_yy")>>
          THEN cpc = "failed" /\ cerr = "Inconsistent" /\ NoOutput
          ELSE cerr # "Inconsistent"
    /\ cerr = "Inconsistent" => BothIntegrated /\ cpc = "failed" /\ NoOutput
    /\ (cpc = "done" /\ cst.has_xx /\ cst.has_yy) =>
          /\ cout.F_eff = EffOf("s1_xx") /\ cout.F_eff = EffOf("s1_yy")
          /\ cout.n_blocks = BlocksOf("s1_xx") /\ cout.n_blocks = BlocksOf("s1_yy")
          /\ \A t \in 1..NRows :
                /\ Len(cout.s1_xx_clean[t]) = cout.n_blocks
                /\ Len(cout.mask_xx[t]) = cout.n_blocks
                /\ Len(cout.s1_yy_clean[t]) = cout.n_blocks
                /\ Len(cout.mask_yy[t]) = cout.n_blocks

\* A 'separate' run on a product whose YY arrays have one channel more than
\* the XX arrays, failed because XX gives one block and YY two.
C20_Witness ==
    /\ cpc = "failed"
    /\ cerr = "Inconsistent"
    /\ cin.shape = "yy_cols"
    /\ BothIntegrated
    /\ Len(cst.s1_xx_clean[1]) = 1
    /\ Len(cst.s1_yy_clean[1]) = 2
    /\ cout = NoFile

\* C21: in every product written, s1_xx_clean, mask_xx, s1_yy_clean and
\* mask_yy (those present) have as many rows as the persisted time_blk has
\* entries, and each power array read has as many channels as the frequency
\* axis read, from which freq_block_hz is built.
C21_Claim ==
    cpc = "done" =>
        /\ cst.has_xx =>
              /\ Len(cout.s1_xx_clean) = Len(cout.time_blk)
              /\ Len(cout.mask_xx) = Len(cout.time_blk)
              /\ Len(cst.s1_xx[1]) = Len(cst.freq)
        /\ cst.has_yy =>
              /\ Len(cout.s1_yy_clean) = Len(cout.time_blk)
              /\ Len(cout.mask_yy) = Len(cout.time_blk)
              /\ Len(cst.s1_yy[1]) = Len(cst.freq)

\* C22: no step is taken after a failure, and every step by which rfi_clean
\* raises an error (missing axes or polarizations, invalid policy or F_block,
\* F < F_block, shape mismatch, inconsistent F_eff / n_blocks, and the others
\* of the model) leaves the output path as it was before the call: no file
\* created, none truncated or modified.
C22_AbortBeforeOutput ==
    [][/\ cpc # "failed"
       /\ cpc' = "failed" => (cerr' # "none" /\ cout' = cout /\ cout = InitialOutput(cin))]_vars

\* A run failed on inconsistent block counts with the old file still in place.
C22_Witness ==
    /\ cpc = "failed"
    /\ cerr = "Inconsistent"
    /\ cin.out_exists
    /\ cout = OldCleanProduct

\* C23: the thresholds are set by one step only, the one at line 249, taken
\* once (the run never comes back to it), before any block is reduced, and to
\* the evaluator's pair for (M, N, d, pfa); every pass of the block loop leaves
\* them as they are and flags both polarizations of its block with that pair.
C23_ThresholdsOnce ==
    [][/\ pc = "thresholds" => pc' # "thresholds"
       /\ pc' = "thresholds" => pc = "validate"
       /\ thr' # thr =>
             /\ pc = "thresholds" /\ thr = <<>> /\ log = <<>> /\ k = 0
             /\ thr' = compute_sk_thresholds(inp.args.M, inp.args.cfg)
       /\ log' # log =>
             /\ thr' = thr
             /\ thr = compute_sk_thresholds(inp.args.M, inp.args.cfg)
             /\ Len(log') = Len(log) + 1
             /\ LET b == log'[Len(log')]
                IN  \A c \in 1..inp.file.nf :
                       /\ b.flags_xx[c] = Flag(b.sk_xx[c], thr[1], thr[2])
                       /\ b.flags_yy[c] = Flag(b.sk_yy[c], thr[1], thr[2])]_vars

\* A finished run of two blocks, with a channel flagged in XX in the first
\* block and a channel flagged in YY in the second.
C23_Witness ==
    /\ pc = "done"
    /\ T >= 2
    /\ Len(log) = T
    /\ thr = compute_sk_thresholds(inp.args.M, inp.args.cfg)
    /\ \E c \in 1..inp.file.nf : log[1].flags_xx[c] # 0
    /\ \E c \in 1..inp.file.nf : log[2].flags_yy[c] # 0

\* C24: the first change to an existing destination is its deletion, made
\* while the output is not yet open and no block is written; the new file is
\* created only where no file is; rows are written only into the new file;
\* once deleted the old file never comes back, and the new file stays open
\* (incomplete) until the run is done.
C24_DeleteBeforeWrite ==
    [][/\ (out.kind = "old" /\ out' # out) =>
             /\ out' = Absent
             /\ pc = "prepare" /\ pc' = "prepare"
             /\ fout = "unopened" /\ fout' = "unopened"
             /\ log = <<>> /\ log' = <<>>
       /\ out.kind # "old" => out'.kind # "old"
       /\ (out'.kind = "product" /\ out.kind # "product") =>
             out = Absent /\ log = <<>> /\ out' = NewProduct(T, inp.file.nf)
       /\ log' # log => out.kind = "product" /\ out'.kind = "product"
       /\ (out'.kind = "product" /\ pc' # "done") => fout' = "open" /\ pc' = "loop"]_vars

\* A run over an existing destination, stopped between two blocks: the old
\* file is gone and the new one holds one of its rows.
C24_Witness ==
    /\ inp.args.out_exists
    /\ pc = "loop"
    /\ k = 1 /\ T >= 2
    /\ out.kind = "product"
    /\ out.nwrites[1] = 1 /\ out.nwrites[2] = 0
    /\ fout = "open"

\* The samples and timestamps of block kk alone: M spectra of nf channels.
BlockSamples(pol, kk) ==
    [j \in 1..inp.args.M |->
       [c \in 1..inp.file.nf |->
          Power(pol, inp.args.start_idx + kk * inp.args.M + j - 1, c - 1, inp.file.data)]]
BlockTimes(kk) ==
    [j \in 1..inp.args.M |-> TimeAt(inp.file, inp.args.start_idx + kk * inp.args.M + j - 1)]

\* The row of each output dataset as a function of one block's samples and
\* timestamps, M, (N, d, pfa) and the thresholds.
RowFromSamples(xx, yy, times, M, cfg, th) ==
    LET nf == Len(xx[1])
        col(a, c) == [j \in 1..Len(a) |-> a[j][c]]
        sk(a, c) == get_sk(SumSeq(col(a, c)), SumSquares3(col(a, c)), M, cfg)
    IN  [time_blk |-> <<SumSeq(times), Len(times)>>,
         s1_xx |-> [c \in 1..nf |-> Float32(SumSeq(col(xx, c)))],
         s1_yy |-> [c \in 1..nf |-> Float32(SumSeq(col(yy, c)))],
         sk_flags_xx |-> [c \in 1..nf |-> Flag(sk(xx, c), th[1], th[2])],
         sk_flags_yy |-> [c \in 1..nf |-> Flag(sk(yy, c), th[1], th[2])]]

\* What the loop body computes for each loop value kk, as blocks[kk + 1].
BlocksReduced == [j \in 1..T |-> ReduceBlock(j - 1, inp.file, inp.args, thr)]

\* The product after the passes for the loop values order[1], order[2], ...,
\* each writing YY before XX when yyFirst.
RECURSIVE WriteInOrder(_, _, _, _)
WriteInOrder(o, order, yyFirst, blocks) ==
    IF order = <<>> THEN o
    ELSE LET b == blocks[Head(order) + 1]
             w == IF yyFirst THEN WriteXX(WriteYY(WriteTime(o, b), b), b)
                  ELSE WriteTime(WriteYY(WriteXX(o, b), b), b)
         IN  WriteInOrder(w, Tail(order), yyFirst, blocks)

\* The sequences in which the elements of the set S can be taken.
RECURSIVE Orders(_)
Orders(S) ==
    IF S = {} THEN {<<>>}
    ELSE UNION { { <<x>> \o p : p \in Orders(S \ {x}) } : x \in S }

\* The orders in which the loop values 0..T-1 can be taken.
BlockOrders == Orders(0..(T - 1))

\* C25: in the finished product, row k of every dataset is the function
\* RowFromSamples of the samples and timestamps of block k alone and of
\* (M, N, d, pfa); and the passes of the loop taken in any order, with XX
\* written before YY or YY before XX, give that same product.
C25_BlocksIndependent ==
    pc = "done" =>
        /\ \A kk \in 0..(T - 1) :
              LET row == RowFromSamples(BlockSamples("xx", kk), BlockSamples("yy", kk),
                                        BlockTimes(kk), inp.args.M, inp.args.cfg, thr)
              IN  /\ out.time_blk[kk + 1] = row.time_blk
                  /\ out.s1_xx[kk + 1] = row.s1_xx
                  /\ out.s1_yy[kk + 1] = row.s1_yy
                  /\ out.sk_flags_xx[kk + 1] = row.sk_flags_xx
                  /\ out.sk_flags_yy[kk + 1] = row.sk_flags_yy
        /\ LET blocks == BlocksReduced
                new == NewProduct(T, inp.file.nf)
           IN  \A order \in BlockOrders, yyFirst \in BOOLEAN :
                  WriteInOrder(new, order, yyFirst, blocks) = out

\* A finished run of two blocks of two samples, whose rows differ.
C25_Witness ==
    /\ pc = "done"
    /\ T = 2 /\ inp.args.M = 2 /\ inp.file.nf = 2
    /\ Cardinality(BlockOrders) = 2
    /\ out.s1_xx[1] # out.s1_xx[2]
    /\ out.time_blk[1] # out.time_blk[2]
    /\ out.sk_flags_yy[1] # out.sk_flags_yy[2]

\* The file at h5_path is the one stage 1 was called on.
InputOnDisk == inp.args.same_path => out = OldProduct

\* The arrays rfi_clean loaded are those of the product file.
LoadedUnchanged ==
    /\ cst.freq = FreqAxis(cin)
    /\ cst.time_blk = TimeAxis(cin)
    /\ cst.has_xx => /\ cst.s1_xx = Dataset(cin, "s1_xx")
                     /\ cst.flags_xx = Dataset(cin, "flags_xx")
    /\ cst.has_yy => /\ cst.s1_yy = Dataset(cin, "s1_yy")
                     /\ cst.flags_yy = Dataset(cin, "flags_yy")

\* C26: when stream_sk_dualpol has ended, by returning or by raising, the
\* input file still holds its power arrays and axes; when rfi_clean has ended
\* after loading, the loaded arrays are those of the stage-1 product.
C26_Claim ==
    /\ Ended => InputOnDisk
    /\ (CleanEnded /\ cerr \notin {"KeyErrorAxes", "KeyErrorPols"}) => LoadedUnchanged

\* The errors by which the checks of the input file and of the arguments end
\* the run, the division by M = 0 of line 232 among them.
InputCheckErrors == ValueErrors \cup {"ZeroDivisionError"}

\* C27: when stage 1 has failed a check of its input file or arguments
\* (shape or frequency-axis mismatch, start offset, sample cap, too few
\* samples, M), the output path holds what it held before the call and no
\* output file was opened.
C27_DestinationKept ==
    (pc = "failed" /\ err \in InputCheckErrors) =>
        /\ OutUntouched
        /\ fout = "unopened"
        /\ log = <<>>

\* A run on fewer than M samples failed with the old file still in place.
C27_Witness ==
    /\ pc = "failed"
    /\ err = "NotEnoughSamples"
    /\ inp.args.M > Selected
    /\ inp.args.out_exists
    /\ out = OldProduct

\* C28: when stream_sk_dualpol has ended, by returning or by raising after
\* the input file was opened, the input handle is closed and the output
\* handle is not left open.
C28_Claim ==
    (Ended /\ fin # "unopened") => fin = "closed" /\ fout # "open"

\* The products that differ from c in the s1 of the channels not good in the
\* mask applied (other finite values, or NaN / infinity) or of the channels
\* after the last full block, the flags being those of c.
VaryMasked(c) ==
    { [c EXCEPT !.masked = m, !.tail = tl] : m \in {0, 1, 2}, tl \in {0, 1} }

\* C29: a product written does not change with the S1 of the channels that
\* are not good in the mask applied or that lie after the last full block,
\* whatever is put there, NaN and the infinities included.
C29_Claim ==
    (cpc = "done" /\ cin.shape = "ok") =>
        \A c \in VaryMasked(cin) :
            LET r == RunClean(c)
            IN  r.err = "none" /\ Datasets(r.file) = Datasets(cout)

\* The same for finite values only: holds of every product written.
FiniteMaskedIgnored ==
    (cpc = "done" /\ cin.shape = "ok") =>
        \A c \in { v \in VaryMasked(cin) : v.masked # 2 } :
            LET r == RunClean(c)
            IN  r.err = "none" /\ Datasets(r.file) = Datasets(cout)
\* The mask rfi_clean applies to polarization pol of the product c under the
\* policy mode, and the product file it writes under that policy.
GoodUnder(c, mode, pol) ==
    LET st == build_masks([c EXCEPT !.flag_mode = mode], load_skstream(c))
    IN  GoodFor(st.good_comb, IF pol = "xx" THEN st.good_xx ELSE st.good_yy)
FileUnder(c, mode) == RunClean([c EXCEPT !.flag_mode = mode]).file

\* C30: on a product with both polarizations integrated under 'separate',
\* the runs under 'or' and 'and' end with a product too; every cell good
\* under 'or' is good under 'separate' in XX and in YY, and every cell good
\* under 'separate' in XX or in YY is good under 'and'; for every (t, block)
\* and polarization n_good('or') <= n_good('separate') <= n_good('and'); and
\* a block undefined under 'and' is undefined under 'separate' and 'or'.
C30_PolicyMonotone ==
    (cpc = "done" /\ cin.pols = "both" /\ cin.shape = "ok" /\ cin.flag_mode = "separate") =>
        LET o == FileUnder(cin, "or")
            a == FileUnder(cin, "and")
        IN  /\ o.kind = "product" /\ a.kind = "product"
            /\ \A t \in 1..NRows, f \in 1..cin.F :
                  /\ GoodUnder(cin, "or", "xx")[t][f] =>
                        cst.good_for_xx[t][f] /\ cst.good_for_yy[t][f]
                  /\ GoodUnder(cin, "or", "yy")[t][f] =>
                        cst.good_for_xx[t][f] /\ cst.good_for_yy[t][f]
                  /\ (cst.good_for_xx[t][f] \/ cst.good_for_yy[t][f]) =>
                        GoodUnder(cin, "and", "xx")[t][f] /\ GoodUnder(cin, "and", "yy")[t][f]
            /\ \A t \in 1..NRows, b \in 1..cout.n_blocks :
                  /\ o.mask_xx[t][b] <= cout.mask_xx[t][b]
                  /\ cout.mask_xx[t][b] <= a.mask_xx[t][b]
                  /\ o.mask_yy[t][b] <= cout.mask_yy[t][b]
                  /\ cout.mask_yy[t][b] <= a.mask_yy[t][b]
                  /\ a.mask_xx[t][b] = 0 =>
                        /\ cout.mask_xx[t][b] = 0 /\ cout.mask_yy[t][b] = 0
                        /\ o.mask_xx[t][b] = 0 /\ o.mask_yy[t][b] = 0
                  /\ RIsNaN(a.s1_xx_clean[t][b]) =>
                        /\ RIsNaN(cout.s1_xx_clean[t][b]) /\ RIsNaN(o.s1_xx_clean[t][b])
                  /\ RIsNaN(a.s1_yy_clean[t][b]) =>
                        /\ RIsNaN(cout.s1_yy_clean[t][b]) /\ RIsNaN(o.s1_yy_clean[t][b])

\* A 'separate' run with a block whose three counts differ in XX.
C30_Witness ==
    /\ cpc = "done" /\ cin.pols = "both" /\ cin.shape = "ok" /\ cin.flag_mode = "separate"
    /\ \E t \in 1..NRows, b \in 1..cout.n_blocks :
          /\ FileUnder(cin, "or").mask_xx[t][b] < cout.mask_xx[t][b]
          /\ cout.mask_xx[t][b] < FileUnder(cin, "and").mask_xx[t][b]

\* A 'separate' run with a block that is undefined under every policy.
C30_WitnessUndefined ==
    /\ cpc = "done" /\ cin.pols = "both" /\ cin.shape = "ok" /\ cin.flag_mode = "separate"
    /\ \E t \in 1..NRows, b \in 1..cout.n_blocks :
          /\ FileUnder(cin, "and").mask_xx[t][b] = 0
          /\ RIsNaN(cout.s1_yy_clean[t][b])
====
